---------------------------- MODULE Spec2Model ----------------------------
(***************************************************************************)
(* A model of the job monitoring agent: the retrying fetcher               *)
(* (scrapers/base.py), the page-driven scrapers (scrapers/naukri.py,       *)
(* indeed.py, wellfound.py, linkedin.py), the orchestrator (main.py) and   *)
(* the processor (processor.py), and the daily scheduler (scheduler.py).   *)
(*                                                                         *)
(* Text is modelled character by character: a Python str is a sequence of  *)
(* one-character strings, so that strip(), lower(), the regular            *)
(* expressions and strptime/strftime are computed, not assumed.            *)
(***************************************************************************)
EXTENDS Integers, Sequences, FiniteSets, TLC

VARIABLES
    today,          \* processor.TODAY, a proleptic Gregorian ordinal
    matcher,        \* the SequenceMatcher fuzzywuzzy imported
    pc,             \* run_agent: the statement it is at
    src,            \* run_agent: index into `scrapers` of the source being scraped
    spc,            \* scrape(): where the running scrape call is
    page,           \* scrape(): the loop variable (page number, or index into urls)
    attempt,        \* _fetch(): the number of the last attempt made
    fetchLog,       \* _fetch(): <<[status, wait]>> of the attempts of this call
    resp,           \* _fetch(): the value it returned to scrape()
    scraped,        \* scrape(): its local all_jobs
    pages,          \* scrape(): what happened at each page of this call
    ret,            \* scrape(): the value it returned, or that it raised
    all_jobs,       \* run_agent: all_jobs
    platform_stats, \* run_agent: platform_stats, in insertion order
    processed_jobs, \* run_agent: processed_jobs
    final_jobs,     \* run_agent: final_jobs
    calls,          \* run_agent: the scrape calls made so far and how each ended
    excel,          \* the file config.OUTPUT_FILE: None, or the rows written to it
    csvfile,        \* the file config.OUTPUT_CSV: None, or the rows written to it
    leads,          \* the file hr_leads.csv: None, or the companies written to it
    npc,            \* process_jobs: the statement it is at
    in_args,        \* the make_job_record arguments in_jobs was built from
    in_jobs,        \* process_jobs: its argument
    nidx,           \* process_jobs: index of the record the loop is at
    job,            \* process_jobs: the loop's `job`
    raw,            \* process_jobs: `job` as it entered the loop body
    processed,      \* process_jobs: the list `processed`
    deduped,        \* process_jobs: the value returned
    dpc,            \* _deduplicate: the statement it is at
    dcall,          \* _deduplicate: 1 in a first call, 2 in a call on its result
    d_jobs,         \* _deduplicate: its argument `jobs`
    d_sorted,       \* _deduplicate: jobs_sorted
    didx,           \* _deduplicate: index in jobs_sorted of the loop's `job`
    d_unique,       \* _deduplicate: unique_jobs
    d_seen,         \* _deduplicate: seen, the triples of the accepted jobs
    dret,           \* _deduplicate: the value returned
    d_first,        \* the value the first of two _deduplicate calls returned
    mpc,            \* merge_with_existing: the statement it is at
    existing_file,  \* merge_with_existing: the file at its argument existing_file
    m_new,          \* merge_with_existing: its argument new_jobs
    existing_records, \* merge_with_existing: existing_records
    new_count,      \* merge_with_existing: the count it logs, max(0, new_count)
    merged,         \* merge_with_existing: the value returned
    xpc,            \* one source's items on their way to the canonical output
    variant,        \* the scraper the items are given to
    items,          \* the source items: cards, payload objects or result rows
    extracted,      \* what the scraper's parser made of the items
    india_jobs,     \* WellfoundScraper.scrape: india_jobs
    canonical,      \* what process_jobs returned for the scraper's records
    wpc,            \* _extract_jobs_from_json: the statement it is at
    data,           \* _extract_jobs_from_json: the payload, a tree of nodes
    stack,          \* _extract_jobs_from_json: the calls not yet made, <<node, depth>>
    inspected,      \* _extract_jobs_from_json: the nodes it looked at, in order
    w_jobs,         \* _extract_jobs_from_json: its argument `jobs`
    store,          \* two runs: jobs_data.xlsx, which both read and write
    rpc,            \* two runs: the statement of run_agent each run is at
    r_batch,        \* two runs: processed_jobs of each run
    r_final,        \* two runs: final_jobs of each run
    race_log,       \* two runs: the reads and writes of the file, in order
    now,            \* scheduler: the calendar date of the clock
    s_pending,      \* scheduler: a run is due
    s_runs,         \* scheduler: the runs made, the day and the record of each
    site_pages      \* the number of result pages naukri.com and in.indeed.com have

vars == <<today, matcher, pc, src, spc, page, attempt, fetchLog, resp, scraped, pages,
          ret, all_jobs, platform_stats, processed_jobs, final_jobs,
          calls, excel, csvfile, leads,
          npc, in_args, in_jobs, nidx, job, raw, processed, deduped,
          dpc, dcall, d_jobs, d_sorted, didx, d_unique, d_seen, dret, d_first,
          mpc, existing_file, m_new, existing_records, new_count, merged,
          xpc, variant, items, extracted, india_jobs, canonical,
          wpc, data, stack, inspected, w_jobs,
          store, rpc, r_batch, r_final, race_log,
          now, s_pending, s_runs, site_pages>>

runVars == <<pc, src, spc, page, attempt, fetchLog, resp, scraped, pages,
             ret, all_jobs, platform_stats, processed_jobs, final_jobs,
             calls, excel, csvfile, leads>>

normVars == <<npc, in_args, in_jobs, nidx, job, raw, processed, deduped>>

dedupVars == <<dpc, dcall, d_jobs, d_sorted, didx, d_unique, d_seen, dret, d_first>>

mergeVars == <<mpc, existing_file, m_new, existing_records, new_count, merged>>

itemVars == <<xpc, variant, items, extracted, india_jobs, canonical>>

walkVars == <<wpc, data, stack, inspected, w_jobs>>

raceVars == <<store, rpc, r_batch, r_final, race_log>>

schedVars == <<now, s_pending, s_runs>>

\* the variables of the functions followed on their own
unitVars == <<dedupVars, mergeVars, itemVars, walkVars, raceVars, schedVars>>

None == "None"

\* the Python None where a str is expected (an absent field)
Absent == <<"None">>

\* _deduplicate is not running
DedupIdle ==
    /\ dpc = "idle" /\ dcall = 0 /\ d_jobs = <<>> /\ d_sorted = <<>> /\ didx = 0
    /\ d_unique = <<>> /\ d_seen = <<>> /\ dret = <<>> /\ d_first = <<>>

\* merge_with_existing is not running
MergeIdle ==
    /\ mpc = "idle" /\ m_new = <<>> /\ existing_records = <<>>
    /\ existing_file = [exists |-> FALSE, corrupt |-> FALSE, rows |-> <<>>]
    /\ new_count = 0 /\ merged = <<>>

\* no items are followed
ItemIdle ==
    /\ xpc = "idle" /\ variant = "" /\ items = <<>> /\ extracted = <<>>
    /\ india_jobs = <<>> /\ canonical = <<>>

\* _extract_jobs_from_json is not running
WalkIdle ==
    /\ wpc = "idle" /\ data = <<>> /\ stack = <<>> /\ inspected = <<>> /\ w_jobs = <<>>

\* no second run is followed
RaceIdle ==
    /\ store = [exists |-> FALSE, corrupt |-> FALSE, rows |-> <<>>]
    /\ rpc = <<>> /\ r_batch = <<>> /\ r_final = <<>> /\ race_log = <<>>

\* no scheduler is running
SchedIdle == now = 0 /\ s_pending = FALSE /\ s_runs = <<>>

\* Python evaluates an argument, or the right-hand side of an assignment,
\* once: F at the value of v
Bind(v, F(_)) == CHOOSE r \in {F(x) : x \in {v}} : TRUE

---------------------------------------------------------------------------
(* Python str operations on sequences of characters.                       *)

SetMin(S) == CHOOSE x \in S : \A y \in S : x <= y
SetMax(S) == CHOOSE x \in S : \A y \in S : x >= y

IsSpace(c) == c \in {" ", "\t", "\n"}

DigitChars == <<"0", "1", "2", "3", "4", "5", "6", "7", "8", "9">>
IsDigit(c) == \E i \in 1..10 : DigitChars[i] = c
DigitVal(c) == (CHOOSE i \in 1..10 : DigitChars[i] = c) - 1

UpperChars == <<"A", "B", "C", "D", "E", "F", "G", "H", "I", "J", "K", "L", "M",
                "N", "O", "P", "Q", "R", "S", "T", "U", "V", "W", "X", "Y", "Z">>
LowerChars == <<"a", "b", "c", "d", "e", "f", "g", "h", "i", "j", "k", "l", "m",
                "n", "o", "p", "q", "r", "s", "t", "u", "v", "w", "x", "y", "z">>

LowerChar(c) ==
    IF \E i \in 1..26 : UpperChars[i] = c
    THEN LowerChars[CHOOSE i \in 1..26 : UpperChars[i] = c]
    ELSE c

\* str.lower()
Lower(str) == Bind(str, LAMBDA s : [i \in 1..Len(s) |-> LowerChar(s[i])])

\* str.strip()
Strip(str) ==
    LET Kept(s, keep) == IF keep = {} THEN <<>> ELSE SubSeq(s, SetMin(keep), SetMax(keep))
    IN  Bind(str, LAMBDA s :
            Bind({i \in 1..Len(s) : ~IsSpace(s[i])}, LAMBDA keep : Kept(s, keep)))

\* s[p:].startswith(lit)
StartsWithAt(s, p, lit) ==
    /\ p >= 1
    /\ p + Len(lit) - 1 <= Len(s)
    /\ SubSeq(s, p, p + Len(lit) - 1) = lit

\* lit in s
Contains(str, lit) ==
    Bind(str, LAMBDA s : \E p \in 1..(Len(s) + 1) : StartsWithAt(s, p, lit))

\* the position after the longest run of digits that starts at p (regex \d*)
RECURSIVE DigitsEnd(_, _)
DigitsEnd(s, p) ==
    IF p <= Len(s) /\ IsDigit(s[p]) THEN DigitsEnd(s, p + 1) ELSE p

\* the position after the longest run of whitespace that starts at p (regex \s*)
RECURSIVE SpacesEnd(_, _)
SpacesEnd(s, p) ==
    IF p <= Len(s) /\ IsSpace(s[p]) THEN SpacesEnd(s, p + 1) ELSE p

\* int(digits)
RECURSIVE ToInt(_)
ToInt(digits) ==
    Bind(digits, LAMBDA ds :
        IF ds = <<>> THEN 0
        ELSE 10 * ToInt(SubSeq(ds, 1, Len(ds) - 1)) + DigitVal(ds[Len(ds)]))

\* str(n) for n >= 0
RECURSIVE ToStr(_)
ToStr(n) ==
    IF n < 10 THEN <<DigitChars[n + 1]>>
    ELSE ToStr(n \div 10) \o <<DigitChars[(n % 10) + 1]>>

---------------------------------------------------------------------------
(* datetime.date: proleptic Gregorian ordinals, 0001-01-01 is day 1.       *)

IsLeap(y) == y % 4 = 0 /\ (y % 100 # 0 \/ y % 400 = 0)

MonthDays == <<31, 28, 31, 30, 31, 30, 31, 31, 30, 31, 30, 31>>

DaysInMonth(y, m) == IF m = 2 /\ IsLeap(y) THEN 29 ELSE MonthDays[m]

RECURSIVE DaysBeforeMonth(_, _)
DaysBeforeMonth(y, m) ==
    IF m = 1 THEN 0 ELSE DaysBeforeMonth(y, m - 1) + DaysInMonth(y, m - 1)

DaysBeforeYear(y) ==
    (y - 1) * 365 + ((y - 1) \div 4) - ((y - 1) \div 100) + ((y - 1) \div 400)

\* date(y, m, d).toordinal()
Ymd2Ord(y, m, d) == DaysBeforeYear(y) + DaysBeforeMonth(y, m) + d

\* the year of date.fromordinal(n)
OrdYear(n) ==
    SetMax({y \in ((n \div 366) + 1)..((n \div 365) + 1) : DaysBeforeYear(y) < n})

\* date.fromordinal(n) as [y, m, d]
Ord2Ymd(n) ==
    LET InYear(y, k) ==
            Bind(SetMax({mm \in 1..12 : DaysBeforeMonth(y, mm) < k}), LAMBDA m :
                [y |-> y, m |-> m, d |-> k - DaysBeforeMonth(y, m)])
    IN  Bind(OrdYear(n), LAMBDA y : InYear(y, n - DaysBeforeYear(y)))

\* date.min.toordinal() .. date.max.toordinal()
IsDateOrdinal(n) == n >= 1 /\ n <= 3652059

MonthAbbr == << <<"j","a","n">>, <<"f","e","b">>, <<"m","a","r">>, <<"a","p","r">>,
                <<"m","a","y">>, <<"j","u","n">>, <<"j","u","l">>, <<"a","u","g">>,
                <<"s","e","p">>, <<"o","c","t">>, <<"n","o","v">>, <<"d","e","c">> >>

MonthFull == << <<"j","a","n","u","a","r","y">>, <<"f","e","b","r","u","a","r","y">>,
                <<"m","a","r","c","h">>, <<"a","p","r","i","l">>, <<"m","a","y">>,
                <<"j","u","n","e">>, <<"j","u","l","y">>, <<"a","u","g","u","s","t">>,
                <<"s","e","p","t","e","m","b","e","r">>, <<"o","c","t","o","b","e","r">>,
                <<"n","o","v","e","m","b","e","r">>, <<"d","e","c","e","m","b","e","r">> >>

\* strftime("%b") capitalises the abbreviation
UpperChar(c) ==
    IF \E i \in 1..26 : LowerChars[i] = c
    THEN UpperChars[CHOOSE i \in 1..26 : LowerChars[i] = c]
    ELSE c

\* actual_date.strftime("%d %b %Y")
Strftime(n) ==
    LET dd(t) == IF t.d < 10 THEN <<"0">> \o ToStr(t.d) ELSE ToStr(t.d)
        ab(t) == MonthAbbr[t.m]
    IN  Bind(Ord2Ymd(n), LAMBDA t :
            dd(t) \o <<" ">> \o <<UpperChar(ab(t)[1]), ab(t)[2], ab(t)[3]>>
                  \o <<" ">> \o ToStr(t.y))

---------------------------------------------------------------------------
(* datetime.strptime: the format becomes a regular expression, directive   *)
(* by directive (_strptime.TimeRE), matched with backtracking from the     *)
(* start of the text; the match must consume the whole text.               *)

DSet(a, b) == {DigitChars[i + 1] : i \in a..b}

\* the alternatives of a directive that match at p, as <<[n, v]>>: n characters
\* consumed, v the value read
Alt1(s, p, A) ==
    IF p <= Len(s) /\ s[p] \in A
    THEN <<[n |-> 1, v |-> DigitVal(s[p])]>> ELSE <<>>

Alt2(s, p, A, B) ==
    IF p + 1 <= Len(s) /\ s[p] \in A /\ s[p + 1] \in B
    THEN <<[n |-> 2, v |-> 10 * DigitVal(s[p]) + DigitVal(s[p + 1])]>> ELSE <<>>

AltSpaceDigit(s, p) ==
    IF p + 1 <= Len(s) /\ s[p] = " " /\ s[p + 1] \in DSet(1, 9)
    THEN <<[n |-> 2, v |-> DigitVal(s[p + 1])]>> ELSE <<>>

AltYear(s, p) ==
    IF p + 3 <= Len(s) /\ \A i \in p..(p + 3) : IsDigit(s[i])
    THEN <<[n |-> 4, v |-> ToInt(SubSeq(s, p, p + 3))]>> ELSE <<>>

\* a greedy run of 1..most characters: the longest first
RECURSIVE AltRun(_, _)
AltRun(most, v) ==
    IF most < 1 THEN <<>> ELSE <<[n |-> most, v |-> v]>> \o AltRun(most - 1, v)

AltMonth(s, p, names) ==
    LET hit == {i \in 1..12 : StartsWithAt(Lower(s), p, names[i])}
    IN  IF hit = {} THEN <<>>
        ELSE LET i == CHOOSE i \in hit : TRUE
             IN  <<[n |-> Len(names[i]), v |-> i]>>

Alts(tok, s, p) ==
    CASE tok = "%d" -> Alt2(s, p, {"3"}, DSet(0, 1)) \o Alt2(s, p, DSet(1, 2), DSet(0, 9))
                       \o Alt2(s, p, {"0"}, DSet(1, 9)) \o Alt1(s, p, DSet(1, 9))
                       \o AltSpaceDigit(s, p)
      [] tok = "%m" -> Alt2(s, p, {"1"}, DSet(0, 2)) \o Alt2(s, p, {"0"}, DSet(1, 9))
                       \o Alt1(s, p, DSet(1, 9))
      [] tok = "%Y" -> AltYear(s, p)
      [] tok = "%H" -> Alt2(s, p, {"2"}, DSet(0, 3)) \o Alt2(s, p, DSet(0, 1), DSet(0, 9))
                       \o Alt1(s, p, DSet(0, 9))
      [] tok = "%M" -> Alt2(s, p, DSet(0, 5), DSet(0, 9)) \o Alt1(s, p, DSet(0, 9))
      [] tok = "%S" -> Alt2(s, p, {"6"}, DSet(0, 1)) \o Alt2(s, p, DSet(0, 5), DSet(0, 9))
                       \o Alt1(s, p, DSet(0, 9))
      [] tok = "%f" -> LET run == DigitsEnd(s, p) - p
                       IN  AltRun(IF run > 6 THEN 6 ELSE run, 0)
      [] tok = "%b" -> AltMonth(s, p, MonthAbbr)
      [] tok = "%B" -> AltMonth(s, p, MonthFull)
      [] tok = " "  -> AltRun(SpacesEnd(s, p) - p, 0)
      [] OTHER      -> IF p <= Len(s) /\ LowerChar(s[p]) = LowerChar(tok)
                       THEN <<[n |-> 1, v |-> 0]>> ELSE <<>>

NoFields == [Y |-> 1900, m |-> 1, d |-> 1, S |-> 0]

SetField(f, tok, v) ==
    CASE tok = "%Y" -> [f EXCEPT !.Y = v]
      [] tok = "%m" -> [f EXCEPT !.m = v]
      [] tok = "%b" -> [f EXCEPT !.m = v]
      [] tok = "%B" -> [f EXCEPT !.m = v]
      [] tok = "%d" -> [f EXCEPT !.d = v]
      [] tok = "%S" -> [f EXCEPT !.S = v]
      [] OTHER      -> f

NoMatch == [ok |-> FALSE, end |-> 0, f |-> NoFields]

RECURSIVE MatchFrom(_, _, _, _, _)
RECURSIVE TryAlts(_, _, _, _, _, _)

\* the first match, in the regular expression's order of preference, of
\* fmt[i..] at s[p..]
MatchFrom(fmt, i, s, p, f) ==
    IF i > Len(fmt) THEN [ok |-> TRUE, end |-> p, f |-> f]
    ELSE Bind(Alts(fmt[i], s, p), LAMBDA alts : TryAlts(fmt, i, s, p, f, alts))

TryAlts(fmt, i, s, p, f, alts) ==
    IF alts = <<>> THEN NoMatch
    ELSE LET a == Head(alts)
         IN  Bind(MatchFrom(fmt, i + 1, s, p + a.n, SetField(f, fmt[i], a.v)), LAMBDA r :
                 IF r.ok THEN r ELSE TryAlts(fmt, i, s, p, f, Tail(alts)))

\* datetime.strptime(text, fmt).date().toordinal(), or 0 where it raises ValueError
Strptime(text, fmt) ==
    Bind(MatchFrom(fmt, 1, text, 1, NoFields), LAMBDA r :
        IF /\ r.ok
           /\ r.end = Len(text) + 1
           /\ r.f.Y >= 1
           /\ r.f.d <= DaysInMonth(r.f.Y, r.f.m)
           /\ r.f.S <= 59
        THEN Ymd2Ord(r.f.Y, r.f.m, r.f.d)
        ELSE 0)

\* processor._try_parse_date: `formats`
formats == <<
    <<"%Y", "-", "%m", "-", "%d">>,
    <<"%d", "-", "%m", "-", "%Y">>,
    <<"%d", " ", "%b", " ", "%Y">>,
    <<"%d", " ", "%B", " ", "%Y">>,
    <<"%b", " ", "%d", ",", " ", "%Y">>,
    <<"%B", " ", "%d", ",", " ", "%Y">>,
    <<"%d", "/", "%m", "/", "%Y">>,
    <<"%m", "/", "%d", "/", "%Y">>,
    <<"%Y", "-", "%m", "-", "%d", "T", "%H", ":", "%M", ":", "%S">>,
    <<"%Y", "-", "%m", "-", "%d", "T", "%H", ":", "%M", ":", "%S", ".", "%f">>,
    <<"%Y", "-", "%m", "-", "%d", "T", "%H", ":", "%M", ":", "%S", "Z">>,
    <<"%Y", "-", "%m", "-", "%d", " ", "%H", ":", "%M", ":", "%S">> >>

Posted == <<"p", "o", "s", "t", "e", "d">>

\* re.sub(r"^(posted\s*on\s*|posted\s*)", "", text)
StripPosted(text) ==
    IF ~StartsWithAt(text, 1, Posted) THEN text
    ELSE LET a == SpacesEnd(text, Len(Posted) + 1)
         IN  IF StartsWithAt(text, a, <<"o", "n">>)
             THEN SubSeq(text, SpacesEnd(text, a + 2), Len(text))
             ELSE SubSeq(text, a, Len(text))

RECURSIVE FirstParse(_, _)
FirstParse(text, i) ==
    IF i > Len(formats) THEN 0
    ELSE Bind(Strptime(text, formats[i]), LAMBDA d :
             IF d # 0 THEN d ELSE FirstParse(text, i + 1))

\* processor._try_parse_date(text): the ordinal of the date, 0 for None
_try_parse_date(text) ==
    Bind(Strip(text), LAMBDA t :
        Bind(Strip(StripPosted(t)), LAMBDA cleaned : FirstParse(cleaned, 1)))

---------------------------------------------------------------------------
(* processor.py: the Normalizer.  A job record is a dict of eight str      *)
(* values; the platform and the posting category are only ever compared   *)
(* whole and are kept as atomic strings.                                   *)

Ago == <<"a", "g", "o">>

\* re.match(r"(\d+)\s*(?:day|d)s?\s*ago", s[p:]): 0, or the position after (\d+)
DaysAgoAt(s, p) ==
    IF ~(p <= Len(s) /\ IsDigit(s[p])) THEN 0
    ELSE LET e == DigitsEnd(s, p)
             q == SpacesEnd(s, e)
         IN  IF \E unit \in {<<"d", "a", "y">>, <<"d">>} :
                   /\ StartsWithAt(s, q, unit)
                   /\ \E r \in {q + Len(unit), q + Len(unit) + 1} :
                        /\ r = q + Len(unit) \/ StartsWithAt(s, r - 1, <<"s">>)
                        /\ StartsWithAt(s, SpacesEnd(s, r), Ago)
             THEN e ELSE 0

\* re.match(r"(\d+)\s*" + word, s[p:]): 0, or the position after (\d+)
NumberWordAt(s, p, word) ==
    IF ~(p <= Len(s) /\ IsDigit(s[p])) THEN 0
    ELSE LET e == DigitsEnd(s, p)
         IN  IF StartsWithAt(s, SpacesEnd(s, e), word) THEN e ELSE 0

\* int(re.search(...).group(1)) for the leftmost match, -1 when there is none
SearchDaysAgo(s) ==
    Bind({p \in 1..Len(s) : DaysAgoAt(s, p) # 0}, LAMBDA hits :
        IF hits = {} THEN -1
        ELSE Bind(SetMin(hits), LAMBDA p : ToInt(SubSeq(s, p, DaysAgoAt(s, p) - 1))))

SearchNumberWord(s, word) ==
    Bind({p \in 1..Len(s) : NumberWordAt(s, p, word) # 0}, LAMBDA hits :
        IF hits = {} THEN -1
        ELSE Bind(SetMin(hits), LAMBDA p :
                 ToInt(SubSeq(s, p, NumberWordAt(s, p, word) - 1))))

TodayKeywords == {
    <<"t", "o", "d", "a", "y">>,
    <<"j", "u", "s", "t", " ", "n", "o", "w">>,
    <<"j", "u", "s", "t", " ", "p", "o", "s", "t", "e", "d">>,
    <<"f", "e", "w", " ", "h", "o", "u", "r", "s">>,
    <<"h", "o", "u", "r", " ", "a", "g", "o">>,
    <<"h", "o", "u", "r", "s", " ", "a", "g", "o">>,
    <<"0", " ", "d", "a", "y">> }

Yesterday == <<"y", "e", "s", "t", "e", "r", "d", "a", "y">>
Week == <<"w", "e", "e", "k">>
Month == <<"m", "o", "n", "t", "h">>

\* _normalize_date with the week rule tried before the day rule
DaysAgoOfWeeksFirst(raw_date, TODAY) ==
    IF SearchNumberWord(raw_date, Week) >= 0
        THEN [rule |-> 4, days_ago |-> SearchNumberWord(raw_date, Week) * 7]
    ELSE IF SearchDaysAgo(raw_date) >= 0
        THEN [rule |-> 1, days_ago |-> SearchDaysAgo(raw_date)]
    ELSE IF \E kw \in TodayKeywords : Contains(raw_date, kw)
        THEN [rule |-> 2, days_ago |-> 0]
    ELSE IF Contains(raw_date, Yesterday)
        THEN [rule |-> 3, days_ago |-> 1]
    ELSE IF SearchNumberWord(raw_date, Month) >= 0
        THEN [rule |-> 5, days_ago |-> SearchNumberWord(raw_date, Month) * 30]
    ELSE Bind(_try_parse_date(raw_date), LAMBDA parsed_date :
             IF parsed_date # 0
             THEN [rule |-> 6, days_ago |-> TODAY - parsed_date]
             ELSE [rule |-> 0, days_ago |-> 0])

\* processor._normalize_date, lines 60-87: which rule decides, and days_ago.
\* rule 0: days_ago stays None.
DaysAgoOf(raw_date, TODAY) ==
    IF SearchDaysAgo(raw_date) >= 0
        THEN [rule |-> 1, days_ago |-> SearchDaysAgo(raw_date)]
    ELSE IF \E kw \in TodayKeywords : Contains(raw_date, kw)
        THEN [rule |-> 2, days_ago |-> 0]
    ELSE IF Contains(raw_date, Yesterday)
        THEN [rule |-> 3, days_ago |-> 1]
    ELSE IF SearchNumberWord(raw_date, Week) >= 0
        THEN [rule |-> 4, days_ago |-> SearchNumberWord(raw_date, Week) * 7]
    ELSE IF SearchNumberWord(raw_date, Month) >= 0
        THEN [rule |-> 5, days_ago |-> SearchNumberWord(raw_date, Month) * 30]
    ELSE Bind(_try_parse_date(raw_date), LAMBDA parsed_date :
             IF parsed_date # 0
             THEN [rule |-> 6, days_ago |-> TODAY - parsed_date]
             ELSE [rule |-> 0, days_ago |-> 0])

\* processor._categorize_days
_categorize_days(days_ago) ==
    IF days_ago = 0 THEN "Posted Today"
    ELSE IF days_ago = 1 THEN "Posted Yesterday"
    ELSE IF days_ago = 2 THEN "Posted 2 Days Ago"
    ELSE IF 3 <= days_ago /\ days_ago <= 7 THEN "Posted 3-7 Days Ago"
    ELSE "Posted More Than 1 Week Ago"

\* TODAY - timedelta(days=days_ago) raises OverflowError
DateOverflows(days_ago, TODAY) ==
    \/ days_ago > 999999999 \/ days_ago < -999999999
    \/ ~IsDateOrdinal(TODAY - days_ago)

\* lines 55-58: the raw date is empty
EmptyDate(j) ==
    [raised |-> FALSE,
     job |-> [j EXCEPT !.DatePosted = <<>>, !.PostingCategory = "Unknown"]]

\* lines 60-98: the raw date is not empty; raised is the OverflowError of
\* line 91, which nothing in process_jobs catches
DatedOrUnknown(j, TODAY) ==
    LET Assign(r) ==
            IF r.rule = 0
            THEN [raised |-> FALSE, job |-> [j EXCEPT !.PostingCategory = "Unknown"]]
            ELSE IF DateOverflows(r.days_ago, TODAY)
            THEN [raised |-> TRUE, job |-> j]
            ELSE [raised |-> FALSE,
                  job |-> [j EXCEPT !.DatePosted = Strftime(TODAY - r.days_ago),
                                    !.PostingCategory = _categorize_days(r.days_ago)]]
    IN  Bind(Lower(Strip(j.DatePosted)), LAMBDA raw_date :
            Bind(DaysAgoOf(raw_date, TODAY), Assign))

\* _normalize_date with the bug of returning early without the category
NormalizeDateNoCategory(j, TODAY) ==
    IF Lower(Strip(j.DatePosted)) = <<>>
    THEN [raised |-> FALSE, job |-> [j EXCEPT !.DatePosted = <<>>]]
    ELSE DatedOrUnknown(j, TODAY)

\* _normalize_date with the bug of clearing a date it cannot parse
NormalizeDateClearsUnparsed(j, TODAY) ==
    IF Lower(Strip(j.DatePosted)) = <<>> THEN EmptyDate(j)
    ELSE Bind(DatedOrUnknown(j, TODAY), LAMBDA r :
             IF ~r.raised /\ r.job.PostingCategory = "Unknown"
             THEN [raised |-> FALSE, job |-> [r.job EXCEPT !.DatePosted = <<>>]]
             ELSE r)

\* processor._normalize_date(job): [raised, job]
_normalize_date(j, TODAY) ==
    IF Lower(Strip(j.DatePosted)) = <<>> THEN EmptyDate(j)
    ELSE DatedOrUnknown(j, TODAY)

NULL == <<"N", "U", "L", "L">>

NullWords == {
    <<"n", "u", "l", "l">>,
    <<"n", "o", "n", "e">>,
    <<"n", "/", "a">>,
    <<"n", "o", "t", " ", "d", "i", "s", "c", "l", "o", "s", "e", "d">>,
    <<"n", "o", "t", " ", "m", "e", "n", "t", "i", "o", "n", "e", "d">>,
    <<>> }

\* _normalize_salary with the bug of comparing without lower()
NormalizeSalaryCaseSensitive(j) ==
    Bind(Strip(j.SalaryPackage), LAMBDA salary :
        IF salary = <<>> \/ salary \in NullWords
        THEN [j EXCEPT !.SalaryPackage = NULL]
        ELSE j)

\* processor._normalize_salary(job)
_normalize_salary(j) ==
    Bind(Strip(j.SalaryPackage), LAMBDA salary :
        IF salary = <<>> \/ Lower(salary) \in NullWords
        THEN [j EXCEPT !.SalaryPackage = NULL]
        ELSE j)

Unknown == <<"u", "n", "k", "n", "o", "w", "n">>

\* _is_valid with the bug of comparing the company without lower()
IsValidCaseSensitive(j) ==
    Bind(Strip(j.CompanyName), LAMBDA company :
        IF company = <<>> \/ company \in {Unknown, <<>>} THEN FALSE
        ELSE IF Strip(j.JobTitle) = <<>> THEN FALSE
        ELSE TRUE)

\* processor._is_valid(job)
_is_valid(j) ==
    Bind(Strip(j.CompanyName), LAMBDA company :
        IF company = <<>> \/ Lower(company) \in {Unknown, <<>>} THEN FALSE
        ELSE IF Strip(j.JobTitle) = <<>> THEN FALSE
        ELSE TRUE)

\* BaseScraper.make_job_record; None is the Python None of an absent salary
make_job_record(company, title, location, platform, date_posted, salary, link) ==
    [CompanyName     |-> Strip(company),
     JobTitle        |-> Strip(title),
     Location        |-> Strip(location),
     PlatformSource  |-> platform,
     DatePosted      |-> Strip(date_posted),
     PostingCategory |-> "",
     SalaryPackage   |-> IF salary = <<>> \/ salary = Absent THEN NULL ELSE Strip(salary),
     JobLink         |-> Strip(link)]

---------------------------------------------------------------------------
(* fuzzywuzzy.fuzz.ratio, as processor._deduplicate calls it.  fuzzywuzzy  *)
(* takes its SequenceMatcher from python-Levenshtein when that package is  *)
(* installed and from difflib otherwise; `matcher` is the one in use.      *)

RECURSIVE CommonPrefix(_, _, _, _, _, _)
\* the length of the longest common prefix of a[i..ahi] and b[j..bhi]
CommonPrefix(a, i, ahi, b, j, bhi) ==
    IF i <= ahi /\ j <= bhi /\ a[i] = b[j]
    THEN 1 + CommonPrefix(a, i + 1, ahi, b, j + 1, bhi)
    ELSE 0

\* difflib.SequenceMatcher.find_longest_match(alo, ahi, blo, bhi) without junk:
\* the longest block, the earliest in a, then the earliest in b
FindLongestMatch(a, alo, ahi, b, blo, bhi) ==
    LET size(i, j) == CommonPrefix(a, i, ahi, b, j, bhi)
        starts == (alo..ahi) \X (blo..bhi)
        Earliest(k) ==
            Bind(SetMin({ij[1] : ij \in {x \in starts : size(x[1], x[2]) = k}}), LAMBDA i :
                [i |-> i, j |-> SetMin({jj \in blo..bhi : size(i, jj) = k}), k |-> k])
    IN  Bind(IF starts = {} THEN 0 ELSE SetMax({size(ij[1], ij[2]) : ij \in starts}),
             LAMBDA k : IF k = 0 THEN [i |-> alo, j |-> blo, k |-> 0] ELSE Earliest(k))

RECURSIVE MatchingBlocks(_, _, _, _, _, _)
\* the sum of the sizes of difflib.SequenceMatcher.get_matching_blocks()
MatchingBlocks(a, alo, ahi, b, blo, bhi) ==
    Bind(FindLongestMatch(a, alo, ahi, b, blo, bhi), LAMBDA m :
        IF m.k = 0 THEN 0
        ELSE m.k + MatchingBlocks(a, alo, m.i - 1, b, blo, m.j - 1)
                 + MatchingBlocks(a, m.i + m.k, ahi, b, m.j + m.k, bhi))

\* the length of a longest common subsequence: python-Levenshtein's ratio is
\* (len(a) + len(b) - d) / (len(a) + len(b)), d the edit distance with a
\* substitution costing 2, and d = len(a) + len(b) - 2 * LCS
LCS(a, b) ==
    LET \* row i of the table from row i - 1: cur holds its entries 1..j - 1
        Row(prev, i) ==
            LET RECURSIVE Fill(_, _)
                Fill(j, cur) ==
                    IF j > Len(b) THEN cur
                    ELSE Bind(IF a[i] = b[j] THEN (IF j = 1 THEN 0 ELSE prev[j - 1]) + 1
                              ELSE LET left == IF j = 1 THEN 0 ELSE cur[j - 1]
                                   IN  IF prev[j] >= left THEN prev[j] ELSE left,
                              LAMBDA v : Bind(Append(cur, v), LAMBDA next : Fill(j + 1, next)))
            IN  Fill(1, <<>>)
        RECURSIVE Rows(_, _)
        Rows(prev, i) ==
            IF i > Len(a) THEN prev
            ELSE Bind(Row(prev, i), LAMBDA cur : Rows(cur, i + 1))
    IN  IF Len(b) = 0 THEN 0 ELSE Rows([j \in 1..Len(b) |-> 0], 1)[Len(b)]

\* fuzzywuzzy.utils.intr(100 * (2.0 * m / t)): round() goes to the even
\* neighbour on a tie
Intr(m, t) ==
    LET q == (200 * m) \div t
        r == (200 * m) % t
    IN  IF 2 * r < t THEN q
        ELSE IF 2 * r > t THEN q + 1
        ELSE IF q % 2 = 0 THEN q ELSE q + 1

\* fuzz.ratio(s1, s2) with the given SequenceMatcher
Ratio(m, s1, s2) ==
    IF s1 = s2 THEN 100
    ELSE IF Len(s1) = 0 \/ Len(s2) = 0 THEN 0
    ELSE IF m = "difflib"
    THEN Intr(MatchingBlocks(s1, 1, Len(s1), s2, 1, Len(s2)), Len(s1) + Len(s2))
    ELSE Intr(LCS(s1, s2), Len(s1) + Len(s2))

---------------------------------------------------------------------------
(* processor._deduplicate                                                  *)

\* platform_priority.get(x.get("Platform Source", ""), 99)
platform_priority(platform) ==
    CASE platform = "Naukri"    -> 0
      [] platform = "LinkedIn"  -> 1
      [] platform = "Indeed"    -> 2
      [] platform = "Wellfound" -> 3
      [] OTHER                  -> 99

Priorities == <<0, 1, 2, 3, 99>>

RECURSIVE SortByPriorityUnstable(_, _)
\* a sort that reverses the order within each priority class
SortByPriorityUnstable(jobs, k) ==
    IF k > Len(Priorities) THEN <<>>
    ELSE LET class == SelectSeq(jobs, LAMBDA j : platform_priority(j.PlatformSource) = Priorities[k])
         IN  [i \in 1..Len(class) |-> class[Len(class) + 1 - i]]
             \o SortByPriorityUnstable(jobs, k + 1)

\* no sort at all
SortByPriorityNone(jobs, k) == jobs


\* a stable sort in which a source without a priority comes first
SortByPriorityUnknownFirst(jobs, k) ==
    SelectSeq(jobs, LAMBDA j : platform_priority(j.PlatformSource) = 99)
    \o SelectSeq(jobs, LAMBDA j : platform_priority(j.PlatformSource) = 0)
    \o SelectSeq(jobs, LAMBDA j : platform_priority(j.PlatformSource) = 1)
    \o SelectSeq(jobs, LAMBDA j : platform_priority(j.PlatformSource) = 2)
    \o SelectSeq(jobs, LAMBDA j : platform_priority(j.PlatformSource) = 3)

RECURSIVE SortByPriority(_, _)
\* sorted(jobs, key=priority): a stable sort, so each priority class keeps
\* its order
SortByPriority(jobs, k) ==
    IF k > Len(Priorities) THEN <<>>
    ELSE SelectSeq(jobs, LAMBDA j : platform_priority(j.PlatformSource) = Priorities[k])
         \o SortByPriority(jobs, k + 1)

\* a cell pandas read as missing: the float nan
NaN == <<"NaN">>

\* str(x) of a field: the text itself, or "nan" for the float nan
Str(x) == IF x = NaN THEN <<"n", "a", "n">> ELSE x

\* the (comp, title, loc) that line 181-183 take of a job
Triple(j) == [comp  |-> Strip(Lower(Str(j.CompanyName))),
              title |-> Strip(Lower(Str(j.JobTitle))),
              loc   |-> Strip(Lower(Str(j.Location)))]

\* IsDup with exclusive thresholds
IsDupExclusive(m, c, s) ==
    /\ Ratio(m, c.comp, s.comp) > 80
    /\ Ratio(m, c.title, s.title) > 85
    /\ IF c.loc # <<>> /\ s.loc # <<>> THEN Ratio(m, c.loc, s.loc) > 60 ELSE TRUE

\* lines 188-200: candidate c is a duplicate of the accepted s
IsDup(m, c, s) ==
    /\ Ratio(m, c.comp, s.comp) >= 80
    /\ Ratio(m, c.title, s.title) >= 85
    /\ IF c.loc # <<>> /\ s.loc # <<>> THEN Ratio(m, c.loc, s.loc) >= 60 ELSE TRUE

RECURSIVE DedupPass(_, _, _, _)
\* lines 180-204: the greedy pass over jobs_sorted[i..]
DedupPass(m, jobs_sorted, i, unique_jobs) ==
    IF i > Len(jobs_sorted) THEN unique_jobs
    ELSE LET is_dup(c) ==
                 \E k \in 1..Len(unique_jobs) :
                     Bind(Triple(unique_jobs[k]), LAMBDA s : IsDup(m, c, s))
         IN  Bind(IF Bind(Triple(jobs_sorted[i]), is_dup)
                  THEN unique_jobs ELSE Append(unique_jobs, jobs_sorted[i]),
                  LAMBDA kept : DedupPass(m, jobs_sorted, i + 1, kept))

\* processor._deduplicate(jobs)
_deduplicate(m, jobs) ==
    IF jobs = <<>> THEN <<>>
    ELSE Bind(SortByPriority(jobs, 1), LAMBDA jobs_sorted :
             DedupPass(m, jobs_sorted, 1, <<>>))

---------------------------------------------------------------------------
(* processor.process_jobs                                                  *)

RECURSIVE NormLoop(_, _, _, _)
\* lines 35-39: the loop over jobs[i..]; an OverflowError of _normalize_date
\* leaves the function
NormLoop(TODAY, jobs, i, out) ==
    IF i > Len(jobs) THEN [raised |-> FALSE, jobs |-> out]
    ELSE LET Keep(j) ==
                 Bind(IF _is_valid(j) THEN Append(out, j) ELSE out, LAMBDA processed_ :
                     NormLoop(TODAY, jobs, i + 1, processed_))
         IN  Bind(_normalize_date(jobs[i], TODAY), LAMBDA d :
                 IF d.raised THEN [raised |-> TRUE, jobs |-> <<>>]
                 ELSE Bind(_normalize_salary(d.job), Keep))

\* process_jobs(jobs): [raised, jobs]
process_jobs(m, TODAY, jobs) ==
    Bind(jobs, LAMBDA raw_jobs :
        Bind(NormLoop(TODAY, raw_jobs, 1, <<>>), LAMBDA n :
            IF n.raised THEN n
            ELSE Bind(n.jobs, LAMBDA valid :
                     [raised |-> FALSE, jobs |-> _deduplicate(m, valid)])))

---------------------------------------------------------------------------
(* The values the checks range over.                                       *)

\* the longest list handed to process_jobs in SpecNorm
MaxJobs == 2

\* the number of result pages naukri.com and in.indeed.com have for the
\* search in the runs followed through all their steps; the pages after them
\* hold no job card
ResultPages == 2

\* datetime.now().date() when processor is imported: 4 Nov 2026, 1 Mar 2024
TodayChoices == {Ymd2Ord(2026, 11, 4), Ymd2Ord(2024, 3, 1)}

Matchers == {"difflib", "Levenshtein"}

\* date texts as the sites print them
DateTexts == {
    <<>>,
    <<" ", " ", " ">>,
    <<"3", " ", "d", "a", "y", "s", " ", "a", "g", "o">>,
    <<"1", " ", "d", "a", "y", " ", "a", "g", "o">>,
    <<"0", " ", "d", "a", "y", "s", " ", "a", "g", "o">>,
    <<"2", "d", " ", "a", "g", "o">>,
    <<"5", " ", "d", "a", "y", "s", " ", "a", "g", "o">>,
    <<"7", " ", "d", "a", "y", "s", " ", "a", "g", "o">>,
    <<"8", " ", "d", "a", "y", "s", " ", "a", "g", "o">>,
    <<"1", "0", " ", "d", "a", "y", "s", " ", "a", "g", "o">>,
    <<"J", "u", "s", "t", " ", "p", "o", "s", "t", "e", "d">>,
    <<"T", "o", "d", "a", "y">>,
    <<"Y", "e", "s", "t", "e", "r", "d", "a", "y">>,
    <<"1", " ", "w", "e", "e", "k", " ", "a", "g", "o">>,
    <<"2", " ", "w", "e", "e", "k", "s", " ", "a", "g", "o">>,
    <<"1", " ", "m", "o", "n", "t", "h", " ", "a", "g", "o">>,
    <<"1", "0", " ", "d", "a", "y", "s">>,
    <<"3", "0", "+", " ", "d", "a", "y", "s", " ", "a", "g", "o">>,
    <<"r", "e", "c", "e", "n", "t", "l", "y">>,
    <<"2", "0", "2", "6", "-", "1", "1", "-", "0", "4">>,
    <<"2", "0", "2", "6", "-", "1", "1", "-", "0", "3">>,
    <<"2", "0", "2", "6", "-", "1", "1", "-", "1", "0">>,
    <<"2", "0", "2", "4", "-", "0", "2", "-", "2", "9">>,
    <<"2", "8", " ", "F", "e", "b", " ", "2", "0", "2", "4">>,
    <<"P", "o", "s", "t", "e", "d", " ", "o", "n", " ", "0", "1", "/", "0", "3", "/", "2", "0", "2", "4">>,
    <<"9", "9", "9", "9", "9", "9", " ", "d", "a", "y", "s", " ", "a", "g", "o">>,
    <<"1", " ", "d", "a", "y", " ", "a", "g", "o", " ", "y", "e", "s", "t", "e", "r", "d", "a", "y">>,
    <<"2", " ", "w", "e", "e", "k", "s", " ", "3", " ", "d", "a", "y", "s", " ", "a", "g", "o">>,
    <<"T", "o", "d", "a", "y", ",", " ", "3", " ", "d", "a", "y", "s", " ", "a", "g", "o">>,
    <<"t", "o", "d", "a", "y", " ", "2", " ", "w", "e", "e", "k", "s">>,
    <<"Y", "e", "s", "t", "e", "r", "d", "a", "y", " ", "3", " ", "w", "e", "e", "k", "s">>,
    <<"2", " ", "w", "e", "e", "k", "s", " ", "1", " ", "m", "o", "n", "t", "h">>,
    <<"3", " ", "m", "o", "n", "t", "h", "s", " ", "a", "g", "o">>,
    <<"1", " ", "m", "o", "n", "t", "h", " ", "0", "4", " ", "N", "o", "v", " ", "2", "0", "2", "6">>,
    <<"0", "4", " ", "N", "o", "v", " ", "2", "0", "2", "6">> }

\* salary texts; Absent is a card without a salary
SalaryTexts == {
    <<>>,
    <<" ", " ">>,
    <<"N", "o", "t", " ", "D", "i", "s", "c", "l", "o", "s", "e", "d">>,
    <<"n", "o", "t", " ", "m", "e", "n", "t", "i", "o", "n", "e", "d">>,
    <<" ", "N", "/", "A", " ">>,
    <<"n", "u", "l", "l">>,
    <<"N", "o", "n", "e">>,
    <<"N", "U", "L", "L">>,
    <<"₹", "5", "-", "7", " ", "L", "P", "A">>,
    <<" ", "5", " ", "L", "P", "A">>,
    <<"0">> }

\* company and title texts for validation
CompanyTexts == {<<"A", "c", "m", "e">>, <<"U", "n", "k", "n", "o", "w", "n">>, <<" ", "u", "n", "k", "n", "o", "w", "n", " ">>, <<" ", " ">>}
TitleTexts == {<<"A", "n", "a", "l", "y", "s", "t">>, <<" ", " ">>}

\* the arguments of one make_job_record call
Args(company, title, date_posted, salary) ==
    [company |-> company, title |-> title, location |-> <<"P", "u", "n", "e">>, platform |-> "Naukri",
     date_posted |-> date_posted, salary |-> salary, link |-> <<>>]

DateArgs == {Args(<<"A", "c", "m", "e">>, <<"A", "n", "a", "l", "y", "s", "t">>, d, Absent) : d \in DateTexts}
SalaryArgs == {Args(<<"A", "c", "m", "e">>, <<"A", "n", "a", "l", "y", "s", "t">>, <<"3", " ", "d", "a", "y", "s", " ", "a", "g", "o">>, s) : s \in SalaryTexts \cup {Absent}}
ValidArgs == {Args(c, t, <<"T", "o", "d", "a", "y">>, Absent) : c \in CompanyTexts, t \in TitleTexts}

RECURSIVE SeqsUpTo(_, _)
\* the sequences over S of length 1..n
SeqsUpTo(S, n) ==
    IF n = 0 THEN {}
    ELSE {<<x>> : x \in S} \cup {Append(s, x) : s \in SeqsUpTo(S, n - 1), x \in S}

NormInputs == {<<a>> : a \in DateArgs \cup SalaryArgs} \cup SeqsUpTo(ValidArgs, MaxJobs)

MakeRecord(a) ==
    make_job_record(a.company, a.title, a.location, a.platform, a.date_posted, a.salary, a.link)

---------------------------------------------------------------------------
(* SpecNorm: one call of process_jobs, statement by statement, on records  *)
(* as the scrapers build them (make_job_record).                           *)

\* run_agent is not running
RunIdle ==
    /\ pc = "idle" /\ src = 0 /\ spc = "idle" /\ page = 0
    /\ attempt = 0 /\ fetchLog = <<>>
    /\ resp = [status_code |-> 0, attempt |-> 0,
               text |-> [cards |-> <<>>, payload |-> <<>>, broken |-> FALSE]]
    /\ scraped = <<>> /\ pages = <<>> /\ ret = [raised |-> FALSE, jobs |-> <<>>]
    /\ all_jobs = <<>> /\ platform_stats = <<>>
    /\ processed_jobs = <<>> /\ final_jobs = <<>>
    /\ calls = <<>>
    /\ excel = [exists |-> FALSE, corrupt |-> FALSE, rows |-> <<>>]
    /\ csvfile = [exists |-> FALSE, corrupt |-> FALSE, rows |-> <<>>]
    /\ leads = [exists |-> FALSE, corrupt |-> FALSE, rows |-> <<>>]

NormInit ==
    /\ today \in TodayChoices
    /\ matcher \in Matchers
    /\ in_args \in NormInputs
    /\ in_jobs = [i \in 1..Len(in_args) |-> MakeRecord(in_args[i])]
    /\ npc = "loop" /\ nidx = 1
    /\ job = None /\ raw = None
    /\ processed = <<>> /\ deduped = <<>>
    /\ RunIdle
    /\ DedupIdle /\ MergeIdle /\ ItemIdle /\ WalkIdle
    /\ RaceIdle /\ SchedIdle /\ site_pages = ResultPages

\* line 36: job = _normalize_date(job)
NormDate ==
    /\ npc = "loop" /\ nidx <= Len(in_jobs)
    /\ \E d \in {_normalize_date(in_jobs[nidx], today)} :
           /\ raw' = in_jobs[nidx]
           /\ job' = d.job
           /\ npc' = IF d.raised THEN "raised" ELSE "salary"
    /\ UNCHANGED <<site_pages, today, matcher, in_args, in_jobs, nidx, processed, deduped>>
    /\ UNCHANGED <<runVars, unitVars>>

\* line 37: job = _normalize_salary(job)
NormSalary ==
    /\ npc = "salary"
    /\ job' = _normalize_salary(job)
    /\ npc' = "valid"
    /\ UNCHANGED <<site_pages, today, matcher, in_args, in_jobs, nidx, raw, processed, deduped>>
    /\ UNCHANGED <<runVars, unitVars>>

\* lines 38-39: if _is_valid(job): processed.append(job)
Validate ==
    /\ npc = "valid"
    /\ processed' = IF _is_valid(job) THEN Append(processed, job) ELSE processed
    /\ nidx' = nidx + 1
    /\ npc' = "loop"
    /\ UNCHANGED <<site_pages, today, matcher, in_args, in_jobs, job, raw, deduped>>
    /\ UNCHANGED <<runVars, unitVars>>

\* lines 43-46: deduped = _deduplicate(processed); return deduped
Dedup ==
    /\ npc = "loop" /\ nidx > Len(in_jobs)
    /\ deduped' = _deduplicate(matcher, processed)
    /\ npc' = "done"
    /\ UNCHANGED <<site_pages, today, matcher, in_args, in_jobs, nidx, job, raw, processed>>
    /\ UNCHANGED <<runVars, unitVars>>

NormNext == NormDate \/ NormSalary \/ Validate \/ Dedup

SpecNorm == NormInit /\ [][NormNext]_vars

---------------------------------------------------------------------------
(* scrapers/base.py: BaseScraper._fetch                                    *)

MAX_RETRIES == 3
RETRY_DELAY == 5
REQUEST_DELAY_MIN == 2
REQUEST_DELAY_MAX == 5

\* requests.RequestException raised by session.get (connection error, timeout),
\* written as a number no status code takes
RequestException == -1

\* what one session.get can give: a status code, or the exception
Outcomes == {200, 403, 429, 500, 404, RequestException}

\* BackoffWait with the bug of backing off after a 429 as after a 403
BackoffWaitSame429(o, n) ==
    CASE o = 403              -> RETRY_DELAY * n
      [] o = 429              -> RETRY_DELAY * n
      [] o = RequestException -> RETRY_DELAY * n
      [] OTHER                -> RETRY_DELAY

\* lines 60-72: the seconds slept after attempt n ended with outcome o # 200
BackoffWait(o, n) ==
    CASE o = 403              -> RETRY_DELAY * n
      [] o = 429              -> RETRY_DELAY * n * 2
      [] o = RequestException -> RETRY_DELAY * n
      [] OTHER                -> RETRY_DELAY

\* what a site serves at a url: the job cards of its markup, the job objects
\* of its embedded payload, and whether the parser rejects the markup
Page(cards, payload, broken) == [cards |-> cards, payload |-> payload, broken |-> broken]

EmptyPage == Page(<<>>, <<>>, FALSE)

\* the Response of attempt n with status 200; text is the page it carries
Response(n, text) == [status_code |-> 200, attempt |-> n, text |-> text]

\* the None that _fetch returns, as a value `not resp` holds of
NoResponse == [status_code |-> 0, attempt |-> 0, text |-> EmptyPage]

\* a file that does not exist, and a file holding rows
NoFile == [exists |-> FALSE, corrupt |-> FALSE, rows |-> <<>>]
File(rows) == [exists |-> TRUE, corrupt |-> FALSE, rows |-> rows]
CorruptFile == [exists |-> TRUE, corrupt |-> TRUE, rows |-> <<>>]

\* how a scrape call ends: it returns jobs, or it raises
Returned(jobs) == [raised |-> FALSE, jobs |-> jobs]
Raised == [raised |-> TRUE, jobs |-> <<>>]

\* process_jobs is not running
NormIdle ==
    /\ npc = "idle" /\ in_args = <<>> /\ in_jobs = <<>> /\ nidx = 0
    /\ job = None /\ raw = None /\ processed = <<>> /\ deduped = <<>>

---------------------------------------------------------------------------
(* SpecFetch: one call of _fetch, attempt by attempt.  spc is "fetch"      *)
(* while the call is in its loop and "returned" once it has returned.      *)

fetchVars == <<attempt, fetchLog, resp, spc>>

FetchInit ==
    /\ today = SetMin(TodayChoices) /\ matcher = "difflib"
    /\ pc = "idle" /\ src = 0 /\ page = 0
    /\ spc = "fetch" /\ attempt = 0 /\ fetchLog = <<>> /\ resp = NoResponse
    /\ scraped = <<>> /\ pages = <<>> /\ ret = Returned(<<>>)
    /\ all_jobs = <<>> /\ platform_stats = <<>>
    /\ processed_jobs = <<>> /\ final_jobs = <<>>
    /\ calls = <<>> /\ excel = NoFile /\ csvfile = NoFile /\ leads = NoFile
    /\ NormIdle
    /\ DedupIdle /\ MergeIdle /\ ItemIdle /\ WalkIdle
    /\ RaceIdle /\ SchedIdle /\ site_pages = ResultPages

\* AttemptOk with the bug of a missing `return resp`
AttemptOkNoReturn ==
    /\ spc = "fetch" /\ attempt < MAX_RETRIES
    /\ attempt' = attempt + 1
    /\ fetchLog' = Append(fetchLog, [status |-> 200, wait |-> 0])
    /\ resp' = Response(attempt + 1, EmptyPage)
    /\ spc' = "fetch"
    /\ UNCHANGED <<site_pages, today, matcher, pc, src, page, scraped, pages, ret, all_jobs,
                   platform_stats, processed_jobs, final_jobs, calls, excel,
                   csvfile, leads>>
    /\ UNCHANGED <<normVars, unitVars>>

\* lines 52-59: the next attempt gets status 200: return resp
AttemptOk ==
    /\ spc = "fetch" /\ attempt < MAX_RETRIES
    /\ attempt' = attempt + 1
    /\ fetchLog' = Append(fetchLog, [status |-> 200, wait |-> 0])
    /\ resp' = Response(attempt + 1, EmptyPage)
    /\ spc' = "returned"
    /\ UNCHANGED <<site_pages, today, matcher, pc, src, page, scraped, pages, ret, all_jobs,
                   platform_stats, processed_jobs, final_jobs, calls, excel,
                   csvfile, leads>>
    /\ UNCHANGED <<normVars, unitVars>>

\* the next attempt ends with outcome o # 200: sleep, go round the loop
AttemptFails(o) ==
    /\ spc = "fetch" /\ attempt < MAX_RETRIES
    /\ attempt' = attempt + 1
    /\ fetchLog' = Append(fetchLog, [status |-> o, wait |-> BackoffWait(o, attempt + 1)])
    /\ UNCHANGED <<site_pages, today, matcher, pc, src, page, spc, resp, scraped, pages, ret,
                   all_jobs, platform_stats, processed_jobs, final_jobs, calls,
                   excel, csvfile, leads>>
    /\ UNCHANGED <<normVars, unitVars>>

\* lines 60-62: 403 Forbidden
AttemptForbidden == AttemptFails(403)

\* lines 63-65: 429 Too Many Requests
AttemptTooMany == AttemptFails(429)

\* lines 66-68: any other status
AttemptOtherStatus == \E o \in Outcomes \ {200, 403, 429, RequestException} : AttemptFails(o)

\* lines 70-72: except requests.RequestException
AttemptError == AttemptFails(RequestException)

\* lines 74-75: the loop is exhausted: return None
FetchGivesUp ==
    /\ spc = "fetch" /\ attempt = MAX_RETRIES
    /\ resp' = NoResponse
    /\ spc' = "returned"
    /\ UNCHANGED <<site_pages, today, matcher, pc, src, page, attempt, fetchLog, scraped, pages,
                   ret, all_jobs, platform_stats, processed_jobs, final_jobs, calls,
                   excel, csvfile, leads>>
    /\ UNCHANGED <<normVars, unitVars>>

FetchNext ==
    \/ AttemptOk
    \/ AttemptForbidden
    \/ AttemptTooMany
    \/ AttemptOtherStatus
    \/ AttemptError
    \/ FetchGivesUp

SpecFetch == FetchInit /\ [][FetchNext]_vars

---------------------------------------------------------------------------
(* The scrapers.  A card is what the selectors of a _parse_card find in    *)
(* one job card: the text of each element, Absent where there is none.     *)

MAX_PAGES == 5

RECURSIVE FetchLoop(_, _, _)
\* base.py lines 52-75 from attempt n on; outcomes[n] is what attempt n gets
\* and text the page a 200 carries
FetchLoop(outcomes, n, text) ==
    IF n > MAX_RETRIES THEN NoResponse
    ELSE IF outcomes[n] = 200 THEN Response(n, text)
    ELSE FetchLoop(outcomes, n + 1, text)

\* BaseScraper._fetch(url)
_fetch(outcomes, text) == FetchLoop(outcomes, 1, text)

\* the attempts a _fetch call that returned r has made
AttemptsOf(r) == IF r = NoResponse THEN MAX_RETRIES ELSE r.attempt

\* bool(x) of an optional str
Truthy(x) == x # Absent /\ x # <<>>

\* el.get_text(strip=True) if el else None
GetText(el) == IF el = Absent THEN Absent ELSE Strip(el)

\* el.get_text(strip=True) if el else ""
GetTextOrEmpty(el) == IF el = Absent THEN <<>> ELSE Strip(el)

\* x or default
OrElse(x, default) == IF Truthy(x) THEN x ELSE default

\* a _parse_card that found neither title nor company returns None: no job
NoJob == <<>>

\* _parse_card that returns None when the title or the company is missing
NaukriParseCardStrict(card) ==
    LET title == GetText(card.title)
        company == GetText(card.company)
    IN  IF ~Truthy(title) \/ ~Truthy(company) THEN NoJob
        ELSE <<make_job_record(company, title, GetTextOrEmpty(card.location), "Naukri",
                               GetTextOrEmpty(card.date), GetText(card.salary),
                               OrElse(card.href, <<>>))>>

\* naukri.py lines 78-139: NaukriScraper._parse_card, as the list of the job
\* it returns (empty for None)
NaukriParseCard(card) ==
    LET title == GetText(card.title)
        link == IF card.title # Absent /\ Truthy(card.href)
                THEN IF StartsWithAt(card.href, 1, <<"h", "t", "t", "p">>) THEN card.href
                     ELSE <<"h", "t", "t", "p", "s", ":", "/", "/", "w", "w", "w", ".", "n", "a", "u", "k", "r", "i", ".", "c", "o", "m">> \o card.href
                ELSE Absent
        company == GetText(card.company)
        location_text == GetTextOrEmpty(card.location)
        salary_text == GetText(card.salary)
        salary == IF Truthy(salary_text)
                     /\ Lower(salary_text) \in {<<"n", "o", "t", " ", "d", "i", "s", "c", "l", "o", "s", "e", "d">>, <<"n", "o", "t", " ", "m", "e", "n", "t", "i", "o", "n", "e", "d">>}
                  THEN Absent ELSE salary_text
        date_posted == GetTextOrEmpty(card.date)
    IN  IF ~Truthy(title) /\ ~Truthy(company) THEN NoJob
        ELSE <<make_job_record(OrElse(company, <<"U", "n", "k", "n", "o", "w", "n">>), OrElse(title, <<"D", "a", "t", "a", " ", "A", "n", "a", "l", "y", "s", "t">>),
                               location_text, "Naukri", date_posted, salary,
                               OrElse(link, <<>>))>>

RECURSIVE ParseCards(_, _, _)
\* the loop over job_cards of a _parse_page: keep the jobs with a company
ParseCards(parse_card(_), cards, i) ==
    IF i > Len(cards) THEN <<>>
    ELSE SelectSeq(parse_card(cards[i]), LAMBDA j : j.CompanyName # <<>>)
         \o ParseCards(parse_card, cards, i + 1)

\* naukri.py lines 47-76: NaukriScraper._parse_page of a page the parser accepts
NaukriParsePage(text) == ParseCards(NaukriParseCard, text.cards, 1)

\* indeed.py line 141: the marks of a salary text
SalaryMarks == {<<"₹">>, <<"I", "N", "R">>, <<"l", "a", "k", "h">>, <<"L", "P", "A">>, <<"p", "e", "r">>, <<"a", "n", "n", "u", "m">>, <<",">>}

\* indeed.py lines 85-162: IndeedScraper._parse_card
IndeedParseCard(card) ==
    LET title == GetText(card.title)
        href_link == IF card.title # Absent /\ Truthy(card.href)
                     THEN IF StartsWithAt(card.href, 1, <<"h", "t", "t", "p">>) THEN card.href
                          ELSE <<"h", "t", "t", "p", "s", ":", "/", "/", "i", "n", ".", "i", "n", "d", "e", "e", "d", ".", "c", "o", "m">> \o card.href
                     ELSE Absent
        link == IF card.title # Absent /\ ~Truthy(href_link) /\ Truthy(card.jk)
                THEN <<"h", "t", "t", "p", "s", ":", "/", "/", "i", "n", ".", "i", "n", "d", "e", "e", "d", ".", "c", "o", "m", "/", "v", "i", "e", "w", "j", "o", "b", "?", "j", "k", "=">> \o card.jk
                ELSE href_link
        company == GetText(card.company)
        location_text == GetTextOrEmpty(card.location)
        salary == IF card.salary # Absent
                     /\ \E c \in SalaryMarks : Contains(Strip(card.salary), c)
                  THEN Strip(card.salary) ELSE Absent
        date_posted == GetTextOrEmpty(card.date)
    IN  IF ~Truthy(title) /\ ~Truthy(company) THEN NoJob
        ELSE <<make_job_record(OrElse(company, <<"U", "n", "k", "n", "o", "w", "n">>), OrElse(title, <<"D", "a", "t", "a", " ", "A", "n", "a", "l", "y", "s", "t">>),
                               location_text, "Indeed", date_posted, salary,
                               OrElse(link, <<>>))>>

\* indeed.py lines 59-83: IndeedScraper._parse_page of a page the parser accepts
IndeedParsePage(text) == ParseCards(IndeedParseCard, text.cards, 1)

\* wellfound.py lines 124-128: WellfoundScraper._is_job_object, for an object
\* whose keys are those of its fields that are not Absent
_is_job_object(obj) ==
    /\ obj.title # Absent
    /\ \/ obj.company # Absent
       \/ obj.companyName # Absent
       \/ \E f \in DOMAIN obj : obj[f] # Absent /\ Contains(Lower(obj[f]), <<"c", "o", "m", "p", "a", "n", "y">>)

\* wellfound.py lines 130-167: WellfoundScraper._json_to_job, for an object
\* whose "company" is a str: line 133-137 then read
\* (companyName or company.name) if company is a dict else company
_json_to_job(obj) ==
    LET title == OrElse(obj.title, <<>>)
        company == IF obj.company = Absent THEN <<>> ELSE obj.company
        location_val == OrElse(obj.location, <<>>)
        salary == IF Truthy(obj.compensation) THEN obj.compensation ELSE Absent
        url == OrElse(obj.url, <<>>)
        link == IF url # <<>> /\ ~StartsWithAt(url, 1, <<"h", "t", "t", "p">>)
                THEN IF StartsWithAt(url, 1, <<"/">>) THEN <<"h", "t", "t", "p", "s", ":", "/", "/", "w", "e", "l", "l", "f", "o", "u", "n", "d", ".", "c", "o", "m">> \o url
                     ELSE <<"h", "t", "t", "p", "s", ":", "/", "/", "w", "e", "l", "l", "f", "o", "u", "n", "d", ".", "c", "o", "m", "/", "j", "o", "b", "s", "/">> \o url
                ELSE url
        date_posted == OrElse(obj.postedAt, <<>>)
    IN  IF company = <<>> /\ title = <<>> THEN NoJob
        ELSE <<make_job_record(IF company # <<>> THEN Strip(company) ELSE <<"U", "n", "k", "n", "o", "w", "n">>,
                               IF title # <<>> THEN Strip(title) ELSE <<"D", "a", "t", "a", " ", "A", "n", "a", "l", "y", "s", "t">>,
                               Strip(location_val), "Wellfound", date_posted, salary,
                               link)>>

RECURSIVE ExtractJobs(_, _)
\* wellfound.py lines 105-122: _extract_jobs_from_json over a payload that is
\* a list of objects with str values
ExtractJobs(payload, i) ==
    IF i > Len(payload) THEN <<>>
    ELSE (IF _is_job_object(payload[i]) THEN _json_to_job(payload[i]) ELSE <<>>)
         \o ExtractJobs(payload, i + 1)

\* wellfound.py lines 70-103: _parse_apollo_state; what the parser raises is
\* caught and gives no jobs
_parse_apollo_state(text) ==
    IF text.broken THEN <<>> ELSE ExtractJobs(text.payload, 1)

\* wellfound.py lines 188-218: the body of the loop of _parse_html
WellfoundParseCard(card) ==
    LET title == GetText(card.title)
        company == GetText(card.company)
        loc == GetTextOrEmpty(card.location)
        salary == GetText(card.salary)
        href == IF card.href = Absent THEN <<>> ELSE card.href
        link == IF href # <<>> /\ ~StartsWithAt(href, 1, <<"h", "t", "t", "p">>)
                THEN <<"h", "t", "t", "p", "s", ":", "/", "/", "w", "e", "l", "l", "f", "o", "u", "n", "d", ".", "c", "o", "m">> \o href ELSE href
    IN  IF ~Truthy(title) /\ ~Truthy(company) THEN NoJob
        ELSE <<make_job_record(OrElse(company, <<"U", "n", "k", "n", "o", "w", "n">>), OrElse(title, <<"D", "a", "t", "a", " ", "A", "n", "a", "l", "y", "s", "t">>),
                               loc, "Wellfound", <<>>, salary, link)>>

RECURSIVE HtmlCards(_, _)
\* wellfound.py lines 169-228: _parse_html of a page the parser accepts
HtmlCards(cards, i) ==
    IF i > Len(cards) THEN <<>>
    ELSE WellfoundParseCard(cards[i]) \o HtmlCards(cards, i + 1)

_parse_html(text) == HtmlCards(text.cards, 1)

\* wellfound.py lines 232-238
india_keywords == {
    <<"i", "n", "d", "i", "a">>,
    <<"b", "a", "n", "g", "a", "l", "o", "r", "e">>,
    <<"b", "e", "n", "g", "a", "l", "u", "r", "u">>,
    <<"m", "u", "m", "b", "a", "i">>,
    <<"d", "e", "l", "h", "i">>,
    <<"h", "y", "d", "e", "r", "a", "b", "a", "d">>,
    <<"p", "u", "n", "e">>,
    <<"c", "h", "e", "n", "n", "a", "i">>,
    <<"k", "o", "l", "k", "a", "t", "a">>,
    <<"g", "u", "r", "g", "a", "o", "n">>,
    <<"g", "u", "r", "u", "g", "r", "a", "m">>,
    <<"n", "o", "i", "d", "a">>,
    <<"a", "h", "m", "e", "d", "a", "b", "a", "d">>,
    <<"j", "a", "i", "p", "u", "r">>,
    <<"k", "o", "c", "h", "i">>,
    <<"t", "h", "i", "r", "u", "v", "a", "n", "a", "n", "t", "h", "a", "p", "u", "r", "a", "m">>,
    <<"l", "u", "c", "k", "n", "o", "w">>,
    <<"c", "h", "a", "n", "d", "i", "g", "a", "r", "h">>,
    <<"i", "n", "d", "o", "r", "e">>,
    <<"c", "o", "i", "m", "b", "a", "t", "o", "r", "e">>,
    <<"n", "a", "g", "p", "u", "r">>,
    <<"v", "i", "s", "a", "k", "h", "a", "p", "a", "t", "n", "a", "m">>,
    <<"s", "u", "r", "a", "t">>,
    <<"r", "e", "m", "o", "t", "e", ",", " ", "i", "n", "d", "i", "a">> }

\* _filter_india that looks for the keywords in the location as written
FilterIndiaCaseSensitive(jobs) ==
    SelectSeq(jobs, LAMBDA j :
        (\E keyword \in india_keywords : Contains(j.Location, keyword)) \/ j.Location = <<>>)

\* wellfound.py lines 230-246: WellfoundScraper._filter_india
_filter_india(jobs) ==
    SelectSeq(jobs, LAMBDA j :
        LET loc == Lower(j.Location)
        IN  (\E keyword \in india_keywords : Contains(loc, keyword)) \/ loc = <<>>)

\* three digits of n < 1000
Pad3(n) == <<ToStr(n \div 100)[1], ToStr((n \div 10) % 10)[1], ToStr(n % 10)[1]>>

RECURSIVE Thousands(_)
\* f"{n:,.0f}" of a whole amount
Thousands(n) ==
    IF n < 1000 THEN ToStr(n)
    ELSE Thousands(n \div 1000) \o <<",">> \o Pad3(n % 1000)

\* linkedin.py lines 59-103: LinkedInScraper._convert_row; a row holds the text
\* of each column (Absent for None) and whole amounts (0 for None)
_convert_row(row) ==
    LET company == IF Truthy(row.company) THEN Strip(row.company) ELSE Absent
        title == IF Truthy(row.title) THEN Strip(row.title) ELSE Absent
        location_val == IF Truthy(row.location) THEN Strip(row.location) ELSE <<>>
        currency == IF row.currency = Absent THEN <<"N", "o", "n", "e">> ELSE row.currency
        interval == IF Truthy(row.interval) THEN <<" ", "(">> \o row.interval \o <<")">> ELSE <<>>
        salary == IF row.min_amount # 0 /\ row.max_amount # 0
                  THEN currency \o Thousands(row.min_amount) \o <<" ", "-", " ">> \o currency
                       \o Thousands(row.max_amount) \o interval
                  ELSE IF row.min_amount # 0
                  THEN currency \o Thousands(row.min_amount) \o interval
                  ELSE Absent
        date_posted == IF Truthy(row.date_posted) THEN row.date_posted ELSE <<>>
        link == IF Truthy(row.job_url) THEN Strip(row.job_url) ELSE <<>>
    IN  IF ~Truthy(company) /\ ~Truthy(title) THEN NoJob
        ELSE <<make_job_record(OrElse(company, <<"U", "n", "k", "n", "o", "w", "n">>), OrElse(title, <<"D", "a", "t", "a", " ", "A", "n", "a", "l", "y", "s", "t">>),
                               location_val, "LinkedIn", date_posted, salary, link)>>

RECURSIVE ConvertRows(_, _)
\* linkedin.py lines 39-47: the loop over results
ConvertRows(rows, i) ==
    IF i > Len(rows) THEN <<>>
    ELSE SelectSeq(_convert_row(rows[i]), LAMBDA j : j.CompanyName # <<>>)
         \o ConvertRows(rows, i + 1)

---------------------------------------------------------------------------
(* The files of a run: processor.merge_with_existing, exporter and         *)
(* lead_finder.  A file is [exists, corrupt, rows].                        *)

\* the texts pandas reads as a missing value
NaStrings == {
    <<>>,
    <<"#", "N", "/", "A">>,
    <<"#", "N", "/", "A", " ", "N", "/", "A">>,
    <<"#", "N", "A">>,
    <<"-", "1", ".", "#", "I", "N", "D">>,
    <<"-", "1", ".", "#", "Q", "N", "A", "N">>,
    <<"-", "N", "a", "N">>,
    <<"-", "n", "a", "n">>,
    <<"1", ".", "#", "I", "N", "D">>,
    <<"1", ".", "#", "Q", "N", "A", "N">>,
    <<"<", "N", "A", ">">>,
    <<"N", "/", "A">>,
    <<"N", "A">>,
    <<"N", "U", "L", "L">>,
    <<"N", "a", "N">>,
    <<"N", "o", "n", "e">>,
    <<"n", "/", "a">>,
    <<"n", "a", "n">>,
    <<"n", "u", "l", "l">> }

\* one text cell as pandas reads it back
ReadCell(s) == IF s \in NaStrings THEN NaN ELSE s

\* one text cell as pandas writes it: the float nan leaves the cell empty
WriteCell(x) == IF x = NaN THEN <<>> ELSE x

\* apply f to the text columns of a row
MapCells(f(_), j) ==
    [j EXCEPT !.CompanyName = f(@), !.JobTitle = f(@), !.Location = f(@),
              !.DatePosted = f(@), !.SalaryPackage = f(@), !.JobLink = f(@)]

\* pd.read_excel(...).to_dict("records") and pd.read_csv of a readable file
ReadRows(rows) == [i \in 1..Len(rows) |-> MapCells(ReadCell, rows[i])]

\* DataFrame(jobs, columns=config.COLUMNS).to_excel / to_csv
WriteRows(jobs) == [i \in 1..Len(jobs) |-> MapCells(WriteCell, jobs[i])]

\* merge_with_existing that gives up the new batch when the file cannot be read
MergeLosesBatch(m, new_jobs, file) ==
    IF ~file.exists \/ file.corrupt THEN <<>>
    ELSE Bind(ReadRows(file.rows) \o new_jobs, LAMBDA all : _deduplicate(m, all))

\* processor.merge_with_existing(new_jobs, existing_file)
merge_with_existing(m, new_jobs, file) ==
    IF ~file.exists \/ file.corrupt THEN new_jobs
    ELSE Bind(ReadRows(file.rows) \o new_jobs, LAMBDA all : _deduplicate(m, all))

RECURSIVE Unique(_, _, _)
\* Series.unique(): the values in order of first appearance
Unique(s, i, out) ==
    IF i > Len(s) THEN out
    ELSE Bind(IF \E k \in 1..Len(out) : out[k] = s[i] THEN out ELSE Append(out, s[i]),
              LAMBDA seen : Unique(s, i + 1, seen))

\* lead_finder.find_hr_emails(companies): [raised, companies with leads];
\* company.lower() of a float nan raises AttributeError
find_hr_emails(companies) ==
    IF \E k \in 1..Len(companies) : companies[k] = NaN
    THEN [raised |-> TRUE, companies |-> <<>>]
    ELSE [raised |-> FALSE,
          companies |-> SelectSeq(companies, LAMBDA c : c # <<>> /\ Lower(c) # <<"u", "n", "k", "n", "o", "w", "n">>)]

\* lead_finder.update_leads_file(): the leads file it leaves
update_leads_file(csv, old) ==
    IF ~csv.exists THEN old
    ELSE LET Companies(rows) == Unique([i \in 1..Len(rows) |-> rows[i].CompanyName], 1, <<>>)
         IN  Bind(find_hr_emails(Bind(ReadRows(csv.rows), Companies)), LAMBDA found :
                 IF csv.corrupt \/ found.raised THEN old
                 ELSE [exists |-> TRUE, corrupt |-> FALSE, rows |-> found.companies])

\* exporter.export_to_excel / export_to_csv(jobs): the file they leave;
\* failed is an OSError of the write
ExportTo(file, jobs, failed) ==
    IF jobs = <<>> \/ failed THEN file
    ELSE [exists |-> TRUE, corrupt |-> FALSE, rows |-> WriteRows(jobs)]

---------------------------------------------------------------------------
(* What the sites serve in a run.                                          *)

Card(title, href, company, location, salary, date) ==
    [title |-> title, href |-> href, jk |-> Absent, company |-> company,
     location |-> location, salary |-> salary, date |-> date]

Obj(title, company, companyName, location, compensation, url, postedAt) ==
    [title |-> title, company |-> company, companyName |-> companyName,
     location |-> location, compensation |-> compensation, url |-> url,
     postedAt |-> postedAt]

\* the result pages of naukri.com, page 1 first
NaukriSite == <<
    Page(<<Card(<<"D", "a", "t", "a", " ", "A", "n", "a", "l", "y", "s", "t">>, <<"/", "j", "1">>, <<"A", "c", "m", "e">>, <<"P", "u", "n", "e">>, <<"N", "o", "t", " ", "d", "i", "s", "c", "l", "o", "s", "e", "d">>, <<"3", " ", "d", "a", "y", "s", " ", "a", "g", "o">>)>>, <<>>, FALSE),
    Page(<<Card(<<"A", "n", "a", "l", "y", "s", "t">>, <<"h", "t", "t", "p", ":", "/", "/", "n", ".", "i", "n", "/", "2">>, Absent, <<"D", "e", "l", "h", "i">>, <<"5", " ", "L", "P", "A">>, <<"T", "o", "d", "a", "y">>)>>, <<>>, FALSE),
    Page(<<Card(Absent, <<"/", "j", "3">>, <<"B", "o", "l", "t">>, Absent, Absent, Absent)>>, <<>>, FALSE),
    Page(<<Card(<<"B", "I", " ", "A", "n", "a", "l", "y", "s", "t">>, Absent, <<"C", "y", "a", "n">>, <<"M", "u", "m", "b", "a", "i">>, Absent, <<"1", " ", "w", "e", "e", "k", " ", "a", "g", "o">>)>>, <<>>, FALSE),
    Page(<<Card(<<"D", "a", "t", "a", " ", "A", "n", "a", "l", "y", "s", "t">>, <<"/", "j", "5">>, <<"D", "u", "n", "e">>, <<" ", "P", "u", "n", "e", " ">>, <<"₹", "3", " ", "L", "P", "A">>, <<"Y", "e", "s", "t", "e", "r", "d", "a", "y">>)>>, <<>>, FALSE) >>

\* the result pages of in.indeed.com, page 0 first
IndeedSite == <<
    Page(<<Card(<<"D", "a", "t", "a", " ", "A", "n", "a", "l", "y", "s", "t">>, <<"/", "v", "1">>, <<"A", "C", "M", "E">>, <<"P", "u", "n", "e">>, <<"₹", "5", ",", "0", "0", ",", "0", "0", "0", " ", "p", "e", "r", " ", "a", "n", "n", "u", "m">>, <<"P", "o", "s", "t", "e", "d", " ", "3", " ", "d", "a", "y", "s", " ", "a", "g", "o">>)>>, <<>>, FALSE),
    Page(<<[Card(<<"D", "a", "t", "a", " ", "A", "n", "a", "l", "y", "s", "t">>, Absent, <<"F", "e", "r", "n">>, <<>>, <<"F", "u", "l", "l", "-", "t", "i", "m", "e">>, <<"3", "0", "+", " ", "d", "a", "y", "s", " ", "a", "g", "o">>) EXCEPT !.jk = <<"a", "b", "1">>]>>, <<>>, FALSE),
    Page(<<Card(<<"A", "n", "a", "l", "y", "s", "t">>, <<"/", "v", "3">>, <<"G", "a", "l", "a">>, <<"N", "o", "i", "d", "a">>, Absent, <<"J", "u", "s", "t", " ", "p", "o", "s", "t", "e", "d">>)>>, <<>>, FALSE),
    Page(<<Card(<<"D", "a", "t", "a", " ", "A", "n", "a", "l", "y", "s", "t">>, <<"/", "v", "4">>, <<"B", "o", "l", "t">>, <<"D", "e", "l", "h", "i">>, Absent, <<"2", "0", "2", "6", "-", "1", "1", "-", "1", "0">>)>>, <<>>, FALSE),
    Page(<<Card(<<"J", "r", " ", "A", "n", "a", "l", "y", "s", "t">>, <<"/", "v", "5">>, <<"H", "i", "v", "e">>, <<"P", "u", "n", "e">>, Absent, <<"r", "e", "c", "e", "n", "t", "l", "y">>)>>, <<>>, FALSE) >>

\* wellfound.py lines 37-41: the three urls tried
urls == <<"role/l", "jobs", "role/data-analyst">>

\* what a wellfound.com url can serve: jobs in the embedded payload, or jobs
\* in the markup only
WellfoundPayloadPage ==
    Page(<<>>,
         <<Obj(<<"D", "a", "t", "a", " ", "A", "n", "a", "l", "y", "s", "t">>, <<"J", "a", "d", "e">>, Absent, <<"P", "u", "n", "e">>, <<"1", "0", "L">>, <<"/", "j", "/", "9">>, <<"2", "0", "2", "6", "-", "1", "0", "-", "3", "0">>),
           Obj(<<"A", "n", "a", "l", "y", "s", "t">>, Absent, <<"K", "i", "l", "o">>, <<"P", "a", "r", "i", "s">>, Absent, <<"k", "-", "1">>, Absent)>>,
         FALSE)
WellfoundHtmlPage ==
    Page(<<[title |-> <<"D", "a", "t", "a", " ", "A", "n", "a", "l", "y", "s", "t">>, company |-> <<"L", "i", "m", "a">>, location |-> Absent,
            salary |-> Absent, href |-> <<"/", "l", "/", "1">>]>>, <<>>, FALSE)

\* a page whose markup the parser rejects
BrokenPage == Page(<<>>, <<>>, TRUE)

\* the rows python-jobspy returns for LinkedIn
LinkedInRows == <<
    [company |-> <<"C", "y", "a", "n">>, title |-> <<"B", "I", " ", "A", "n", "a", "l", "y", "s", "t">>, location |-> <<"M", "u", "m", "b", "a", "i", ",", " ", "I", "n", "d", "i", "a">>,
     min_amount |-> 300000, max_amount |-> 1500000, currency |-> <<"I", "N", "R">>,
     interval |-> <<"y", "e", "a", "r", "l", "y">>, date_posted |-> <<"2", "0", "2", "6", "-", "1", "1", "-", "0", "1">>, job_url |-> <<"h", "t", "t", "p", ":", "/", "/", "l", ".", "i", "n", "/", "1">>] >>

\* how scrape_jobs can end: it raises (ImportError or any other), or returns rows
LinkedInResults == {[raised |-> TRUE, rows |-> <<>>],
                    [raised |-> FALSE, rows |-> <<>>],
                    [raised |-> FALSE, rows |-> LinkedInRows]}

\* run_agent's `scrapers`, in order
scrapers == <<"Naukri", "Indeed", "LinkedIn", "Wellfound">>

\* the pages the url of (scraper s, loop variable p) can serve
SiteChoices(s, p) ==
    CASE s = 1 -> {EmptyPage, BrokenPage}
                  \cup (IF p <= site_pages THEN {NaukriSite[p]} ELSE {})
      [] s = 2 -> {EmptyPage, BrokenPage}
                  \cup (IF p + 1 <= site_pages THEN {IndeedSite[p + 1]} ELSE {})
      [] OTHER -> {EmptyPage, BrokenPage, WellfoundPayloadPage, WellfoundHtmlPage}

\* the outcomes of the attempts of one _fetch call
FetchOutcomes == {<<200, 200, 200>>, <<429, RequestException, 200>>, <<500, 429, 403>>}

\* the rows a previous run left in jobs_data.xlsx and jobs_data.csv
StoredRows == <<
    [CompanyName |-> <<"A", "c", "m", "e">>, JobTitle |-> <<"D", "a", "t", "a", " ", "A", "n", "a", "l", "y", "s", "t">>, Location |-> <<"P", "u", "n", "e">>,
     PlatformSource |-> "Naukri", DatePosted |-> <<"2", "8", " ", "O", "c", "t", " ", "2", "0", "2", "6">>,
     PostingCategory |-> "Posted 3-7 Days Ago", SalaryPackage |-> <<"N", "U", "L", "L">>,
     JobLink |-> <<"h", "t", "t", "p", "s", ":", "/", "/", "w", "w", "w", ".", "n", "a", "u", "k", "r", "i", ".", "c", "o", "m", "/", "j", "1">>],
    [CompanyName |-> <<"Z", "e", "t", "a">>, JobTitle |-> <<"A", "n", "a", "l", "y", "s", "t">>, Location |-> <<>>,
     PlatformSource |-> "Wellfound", DatePosted |-> <<>>,
     PostingCategory |-> "Unknown", SalaryPackage |-> <<"8", "L">>, JobLink |-> <<>>] >>

\* where a run starts: the day, the matcher installed, and the files
\* jobs_data.xlsx and jobs_data.csv of the output directory
Starts == {
    [today |-> Ymd2Ord(2026, 11, 4), matcher |-> "difflib",
     excel |-> NoFile, csvfile |-> NoFile],
    [today |-> Ymd2Ord(2026, 11, 4), matcher |-> "Levenshtein",
     excel |-> File(StoredRows), csvfile |-> File(StoredRows)],
    [today |-> Ymd2Ord(2024, 3, 1), matcher |-> "difflib",
     excel |-> CorruptFile, csvfile |-> File(StoredRows)] }

---------------------------------------------------------------------------
(* Spec: one run of main.run_agent.  One action is one iteration of a      *)
(* scraper's loop over pages or urls (the _fetch call, the parse and what  *)
(* follows them), or one statement of run_agent.                           *)

\* how an iteration leaves the loop body: "next" after _rate_limit(),
\* "continue", "break", or "raise" when the exception leaves scrape()
Exit(exit, jobs) == [exit |-> exit, jobs |-> jobs]

\* the Naukri loop body with the bug of `continue` for `break` at line 33
NaukriBodyContinues(r) ==
    IF r = NoResponse THEN Exit("continue", <<>>)
    ELSE IF r.text.broken THEN Exit("raise", <<>>)
    ELSE Bind(NaukriParsePage(r.text), LAMBDA jobs :
             IF jobs = <<>> THEN Exit("break", <<>>) ELSE Exit("next", jobs))

\* naukri.py lines 29-42: the loop body, given what _fetch returned
NaukriBody(r) ==
    IF r = NoResponse THEN Exit("break", <<>>)
    ELSE IF r.text.broken THEN Exit("raise", <<>>)
    ELSE Bind(NaukriParsePage(r.text), LAMBDA jobs :
             IF jobs = <<>> THEN Exit("break", <<>>) ELSE Exit("next", jobs))

\* the Indeed loop body with the bug of going on after a page without jobs
IndeedBodySkipsEmpty(r) ==
    IF r = NoResponse THEN Exit("break", <<>>)
    ELSE IF r.text.broken THEN Exit("raise", <<>>)
    ELSE Exit("next", IndeedParsePage(r.text))

\* indeed.py lines 40-54: the loop body, given what _fetch returned
IndeedBody(r) ==
    IF r = NoResponse THEN Exit("break", <<>>)
    ELSE IF r.text.broken THEN Exit("raise", <<>>)
    ELSE Bind(IndeedParsePage(r.text), LAMBDA jobs :
             IF jobs = <<>> THEN Exit("break", <<>>) ELSE Exit("next", jobs))

\* the Wellfound loop body with the bug of reaching _rate_limit() after a
\* failed fetch as well
WellfoundBodyDelaysAfterFailure(r) ==
    IF r = NoResponse THEN Exit("next", <<>>)
    ELSE Bind(_parse_apollo_state(r.text), LAMBDA apollo_jobs :
             IF apollo_jobs # <<>> THEN Exit("break", apollo_jobs)
             ELSE IF r.text.broken THEN Exit("raise", <<>>)
             ELSE Bind(_parse_html(r.text), LAMBDA html_jobs :
                      IF html_jobs # <<>> THEN Exit("break", html_jobs)
                      ELSE Exit("next", <<>>)))


\* wellfound.py lines 43-63: the loop body, given what _fetch returned
WellfoundBody(r) ==
    IF r = NoResponse THEN Exit("continue", <<>>)
    ELSE Bind(_parse_apollo_state(r.text), LAMBDA apollo_jobs :
             IF apollo_jobs # <<>> THEN Exit("break", apollo_jobs)
             ELSE IF r.text.broken THEN Exit("raise", <<>>)
             ELSE Bind(_parse_html(r.text), LAMBDA html_jobs :
                      IF html_jobs # <<>> THEN Exit("break", html_jobs)
                      ELSE Exit("next", <<>>)))

\* random.uniform(a, b), in whole seconds
Uniform(a, b) == a..b

\* base.py lines 41-45: the delays _rate_limit() can sleep
_rate_limit == Uniform(REQUEST_DELAY_MIN, REQUEST_DELAY_MAX)

RECURSIVE FetchWaits(_, _)
\* base.py lines 52-72: the time.sleep calls of _fetch from attempt n on, in
\* order
FetchWaits(outcomes, n) ==
    IF n > MAX_RETRIES \/ outcomes[n] = 200 THEN <<>>
    ELSE <<BackoffWait(outcomes[n], n)>> \o FetchWaits(outcomes, n + 1)

\* the index of the last fetched page of ps, 0 if none
LastFetched(ps) ==
    IF \E i \in 1..Len(ps) : ps[i].fetched
    THEN CHOOSE i \in 1..Len(ps) :
             ps[i].fetched /\ \A k \in (i + 1)..Len(ps) : ~ps[k].fetched
    ELSE 0

\* the record of the iterations so far when one more is added: once another
\* page is fetched, the sleeps are kept from the delay after the last fetched
\* page on
Recent(ps, fetched) ==
    IF ~fetched THEN ps
    ELSE [i \in 1..Len(ps) |->
             IF i < LastFetched(ps) THEN [ps[i] EXCEPT !.backoff = <<>>, !.delay = <<>>]
             ELSE IF i = LastFetched(ps) THEN [ps[i] EXCEPT !.backoff = <<>>]
             ELSE ps[i]]

\* the loop variable of scraper s at its first iteration
FirstPage(s) == IF s = 2 THEN 0 ELSE 1

\* one iteration of the loop of scraper s; `last` is the last value of the
\* loop variable and result(all_jobs) what scrape() returns after the loop.
\* The time.sleep calls of the iteration change nothing else and are left
\* out here; TimedStep follows them
LoopStep(s, body(_), last, result(_)) ==
    /\ pc = "scrape" /\ src = s /\ spc = "loop"
    /\ \E outcomes \in FetchOutcomes, text \in SiteChoices(s, page) :
         \E r \in {_fetch(outcomes, text)} : \E b \in {body(r)} :
             /\ resp' = r
             /\ attempt' = AttemptsOf(r)
             /\ scraped' = scraped \o b.jobs
             /\ pages' = Append(pages, [fetched |-> r # NoResponse, jobs |-> b.jobs,
                                        rate_limit |-> b.exit = "next"])
             /\ IF b.exit = "raise"
                THEN spc' = "raised" /\ ret' = Raised /\ page' = page
                ELSE IF b.exit = "break" \/ page = last
                THEN spc' = "returned" /\ ret' = Returned(result(scraped')) /\ page' = page
                ELSE spc' = "loop" /\ ret' = ret /\ page' = page + 1
    /\ UNCHANGED <<site_pages, today, matcher, pc, src, fetchLog, all_jobs, platform_stats,
                   processed_jobs, final_jobs, calls, excel, csvfile, leads>>
    /\ UNCHANGED <<normVars, unitVars>>

\* one iteration of the loop of scraper s as in LoopStep, with its sleeps:
\* the iteration is recorded in `pages` with the sleeps of its _fetch
\* (backoff) and of its _rate_limit() (delay)
TimedStep(s, body(_), last, result(_)) ==
    /\ pc = "scrape" /\ src = s /\ spc = "loop"
    /\ \E outcomes \in FetchOutcomes, text \in SiteChoices(s, page) :
         \E r \in {_fetch(outcomes, text)} : \E b \in {body(r)} :
           \E delay \in (IF b.exit = "next" THEN {<<d>> : d \in _rate_limit} ELSE {<<>>}) :
             /\ resp' = r
             /\ attempt' = AttemptsOf(r)
             /\ scraped' = scraped \o b.jobs
             /\ pages' = Append(Recent(pages, r # NoResponse),
                                [fetched |-> r # NoResponse, jobs |-> b.jobs,
                                 rate_limit |-> b.exit = "next",
                                 backoff |-> FetchWaits(outcomes, 1),
                                 delay |-> delay])
             /\ IF b.exit = "raise"
                THEN spc' = "raised" /\ ret' = Raised /\ page' = page
                ELSE IF b.exit = "break" \/ page = last
                THEN spc' = "returned" /\ ret' = Returned(result(scraped')) /\ page' = page
                ELSE spc' = "loop" /\ ret' = ret /\ page' = page + 1
    /\ UNCHANGED <<site_pages, today, matcher, pc, src, fetchLog, all_jobs, platform_stats,
                   processed_jobs, final_jobs, calls, excel, csvfile, leads>>
    /\ UNCHANGED <<normVars, unitVars>>

\* `return all_jobs`
AllJobs(jobs) == jobs

\* naukri.py lines 27-45: NaukriScraper.scrape, one page
NaukriPage == LoopStep(1, NaukriBody, MAX_PAGES, AllJobs)

\* indeed.py lines 39-57: IndeedScraper.scrape, one page
IndeedPage == LoopStep(2, IndeedBody, MAX_PAGES - 1, AllJobs)

\* WellfoundScraper.scrape with a loop that goes one url beyond the list
WellfoundUrlOneMore == LoopStep(4, WellfoundBody, Len(urls) + 1, _filter_india)

\* wellfound.py lines 43-68: WellfoundScraper.scrape, one url
WellfoundUrl == LoopStep(4, WellfoundBody, Len(urls), _filter_india)

\* linkedin.py lines 19-57: LinkedInScraper.scrape
LinkedInScrape ==
    /\ pc = "scrape" /\ src = 3 /\ spc = "loop"
    /\ \E results \in LinkedInResults :
         /\ scraped' = IF results.raised THEN <<>> ELSE ConvertRows(results.rows, 1)
         /\ ret' = Returned(scraped')
    /\ spc' = "returned"
    /\ UNCHANGED <<site_pages, today, matcher, pc, src, page, attempt, fetchLog, resp, pages,
                   all_jobs, platform_stats, processed_jobs, final_jobs, calls,
                   excel, csvfile, leads>>
    /\ UNCHANGED <<normVars, unitVars>>

\* every _fetch of the scrape call that just ended returned None
AllFetchesFailed == pages # <<>> /\ \A i \in 1..Len(pages) : ~pages[i].fetched

\* Collect with the bug of no try/except around scraper.scrape
CollectNoExcept ==
    /\ pc = "scrape" /\ spc \in {"returned", "raised"}
    /\ platform_stats' = IF ret.raised THEN platform_stats
                         ELSE Append(platform_stats, <<scrapers[src], Len(ret.jobs)>>)
    /\ all_jobs' = all_jobs \o ret.jobs
    /\ calls' = Append(calls, [name |-> scrapers[src], raised |-> ret.raised,
                              failed |-> ret.raised \/ AllFetchesFailed])
    /\ pc' = IF ret.raised THEN "raised" ELSE IF src < Len(scrapers) THEN "scrape" ELSE "process"
    /\ src' = IF ~ret.raised /\ src < Len(scrapers) THEN src + 1 ELSE src
    /\ spc' = IF ~ret.raised /\ src < Len(scrapers) THEN "loop" ELSE "idle"
    /\ page' = IF ~ret.raised /\ src < Len(scrapers) THEN FirstPage(src + 1) ELSE 0
    /\ attempt' = 0 /\ resp' = NoResponse
    /\ scraped' = <<>> /\ pages' = <<>> /\ ret' = Returned(<<>>)
    /\ UNCHANGED <<site_pages, today, matcher, fetchLog, processed_jobs, final_jobs, excel,
                   csvfile, leads>>
    /\ UNCHANGED <<normVars, unitVars>>

\* main.py lines 62-76: run_agent takes what scraper.scrape returned, or
\* catches what it raised, and goes on to the next scraper
Collect ==
    /\ pc = "scrape" /\ spc \in {"returned", "raised"}
    /\ platform_stats' = Append(platform_stats,
                                <<scrapers[src], IF ret.raised THEN 0 ELSE Len(ret.jobs)>>)
    /\ all_jobs' = IF ret.raised THEN all_jobs ELSE all_jobs \o ret.jobs
    /\ calls' = Append(calls, [name |-> scrapers[src], raised |-> ret.raised,
                              failed |-> ret.raised \/ AllFetchesFailed])
    /\ pc' = IF src < Len(scrapers) THEN "scrape" ELSE "process"
    /\ src' = IF src < Len(scrapers) THEN src + 1 ELSE src
    /\ spc' = IF src < Len(scrapers) THEN "loop" ELSE "idle"
    /\ page' = IF src < Len(scrapers) THEN FirstPage(src + 1) ELSE 0
    /\ attempt' = 0 /\ resp' = NoResponse
    /\ scraped' = <<>> /\ pages' = <<>> /\ ret' = Returned(<<>>)
    /\ UNCHANGED <<site_pages, today, matcher, fetchLog, processed_jobs, final_jobs, excel,
                   csvfile, leads>>
    /\ UNCHANGED <<normVars, unitVars>>

\* main.py line 81: processed_jobs = process_jobs(all_jobs); an exception of
\* process_jobs leaves run_agent
Process ==
    /\ pc = "process"
    /\ \E p \in {process_jobs(matcher, today, all_jobs)} :
           /\ processed_jobs' = IF p.raised THEN processed_jobs ELSE p.jobs
           /\ pc' = IF p.raised THEN "raised" ELSE "merge"
    /\ UNCHANGED <<site_pages, today, matcher, src, spc, page, attempt, fetchLog, resp, scraped,
                   pages, ret, all_jobs, platform_stats, final_jobs, calls, excel,
                   csvfile, leads>>
    /\ UNCHANGED <<normVars, unitVars>>

\* main.py lines 84-87
Merge ==
    /\ pc = "merge"
    /\ final_jobs' = IF excel.exists THEN merge_with_existing(matcher, processed_jobs, excel)
                     ELSE processed_jobs
    /\ pc' = "leads"
    /\ UNCHANGED <<site_pages, today, matcher, src, spc, page, attempt, fetchLog, resp, scraped,
                   pages, ret, all_jobs, platform_stats, processed_jobs, calls, excel,
                   csvfile, leads>>
    /\ UNCHANGED <<normVars, unitVars>>

\* main.py lines 90-94: lead_finder.update_leads_file(), its exceptions caught
Leads ==
    /\ pc = "leads"
    /\ leads' = update_leads_file(csvfile, leads)
    /\ pc' = "excel"
    /\ UNCHANGED <<site_pages, today, matcher, src, spc, page, attempt, fetchLog, resp, scraped,
                   pages, ret, all_jobs, platform_stats, processed_jobs, final_jobs,
                   calls, excel, csvfile>>
    /\ UNCHANGED <<normVars, unitVars>>

\* main.py lines 100-103: export_to_excel(final_jobs), its exceptions caught
ExportExcel ==
    /\ pc = "excel"
    /\ \E failed \in BOOLEAN : excel' = ExportTo(excel, final_jobs, failed)
    /\ pc' = "csv"
    /\ UNCHANGED <<site_pages, today, matcher, src, spc, page, attempt, fetchLog, resp, scraped,
                   pages, ret, all_jobs, platform_stats, processed_jobs, final_jobs,
                   calls, csvfile, leads>>
    /\ UNCHANGED <<normVars, unitVars>>

\* main.py lines 105-124: export_to_csv(final_jobs), its exceptions caught,
\* then the summary and `return final_jobs`
ExportCsv ==
    /\ pc = "csv"
    /\ \E failed \in BOOLEAN : csvfile' = ExportTo(csvfile, final_jobs, failed)
    /\ pc' = "done"
    /\ UNCHANGED <<site_pages, today, matcher, src, spc, page, attempt, fetchLog, resp, scraped,
                   pages, ret, all_jobs, platform_stats, processed_jobs, final_jobs,
                   calls, excel, leads>>
    /\ UNCHANGED <<normVars, unitVars>>

\* run_agent at its first scrape call, started as one of `starts` when the
\* sites have n result pages
RunInit(starts, n) ==
    /\ \E start \in starts :
           /\ today = start.today /\ matcher = start.matcher
           /\ excel = start.excel /\ csvfile = start.csvfile
    /\ leads = NoFile
    /\ pc = "scrape" /\ src = 1 /\ spc = "loop" /\ page = FirstPage(1)
    /\ attempt = 0 /\ fetchLog = <<>> /\ resp = NoResponse
    /\ scraped = <<>> /\ pages = <<>> /\ ret = Returned(<<>>)
    /\ all_jobs = <<>> /\ platform_stats = <<>>
    /\ processed_jobs = <<>> /\ final_jobs = <<>>
    /\ calls = <<>>
    /\ NormIdle
    /\ DedupIdle /\ MergeIdle /\ ItemIdle /\ WalkIdle
    /\ RaceIdle /\ SchedIdle /\ site_pages = n

Init == RunInit(Starts, ResultPages)

Next ==
    \/ NaukriPage
    \/ IndeedPage
    \/ LinkedInScrape
    \/ WellfoundUrl
    \/ Collect
    \/ Process
    \/ Merge
    \/ Leads
    \/ ExportExcel
    \/ ExportCsv

Spec == Init /\ [][Next]_vars

---------------------------------------------------------------------------
(* SpecScrape: one scrape() call of Naukri, Indeed or Wellfound, with the  *)
(* sleeps of every iteration.                                              *)

\* naukri.py lines 27-42, with the sleeps
NaukriTimed == TimedStep(1, NaukriBody, MAX_PAGES, AllJobs)

\* indeed.py lines 39-54, with the sleeps
IndeedTimed == TimedStep(2, IndeedBody, MAX_PAGES - 1, AllJobs)

\* wellfound.py lines 43-63, with the sleeps
WellfoundTimed == TimedStep(4, WellfoundBody, Len(urls), _filter_india)

\* run_agent at `jobs = scraper.scrape()` (main.py line 63) of one scraper
ScrapeInit ==
    /\ today = Ymd2Ord(2026, 11, 4) /\ matcher = "difflib"
    /\ excel = NoFile /\ csvfile = NoFile /\ leads = NoFile
    /\ pc = "scrape" /\ src \in {1, 2, 4} /\ spc = "loop" /\ page = FirstPage(src)
    /\ attempt = 0 /\ fetchLog = <<>> /\ resp = NoResponse
    /\ scraped = <<>> /\ pages = <<>> /\ ret = Returned(<<>>)
    /\ all_jobs = <<>> /\ platform_stats = <<>>
    /\ processed_jobs = <<>> /\ final_jobs = <<>>
    /\ calls = <<>>
    /\ NormIdle
    /\ DedupIdle /\ MergeIdle /\ ItemIdle /\ WalkIdle
    /\ RaceIdle /\ SchedIdle
    /\ site_pages \in {ResultPages, MAX_PAGES}

ScrapeNext == NaukriTimed \/ IndeedTimed \/ WellfoundTimed

SpecScrape == ScrapeInit /\ [][ScrapeNext]_vars

\* the starts of the runs followed when the sites have as many result pages
\* as scrape asks for at most (every page of a site may still come empty)
FullStarts == {start \in Starts : start.excel = NoFile}

FairInit == RunInit(FullStarts, MAX_PAGES)

\* the run of a process that is not stopped: every statement returns (an HTTP
\* attempt returns or times out after 30 s, a sleep ends), so the next one is
\* taken
FairSpec == FairInit /\ [][Next]_vars /\ WF_vars(Next)

---------------------------------------------------------------------------
(* SpecDedup: one call of processor._deduplicate, candidate by candidate,  *)
(* followed by a second call on the list the first returned.               *)

\* a record as _deduplicate receives it
Rec(company, title, location, platform) ==
    [CompanyName |-> company, JobTitle |-> title, Location |-> location,
     PlatformSource |-> platform, DatePosted |-> <<>>,
     PostingCategory |-> "Unknown", SalaryPackage |-> NULL, JobLink |-> <<>>]

\* records whose similarities sit on, above and below the thresholds:
\* fuzz.ratio is 80 for acme/acmeco, 73 for acme/acme co, 85 for
\* data analyst/data analytics, 84 for analysts/bi analysts, 60 for
\* mumbai/mumbai, mh, in and 57 for mumbai/mumbai (remote)
DedupPool == <<
    Rec(<<"A", "c", "m", "e">>, <<"D", "a", "t", "a", " ", "A", "n", "a", "l", "y", "s", "t">>, <<"M", "u", "m", "b", "a", "i">>, "Naukri"),
    Rec(<<"A", "C", "M", "E">>, <<"d", "a", "t", "a", " ", "a", "n", "a", "l", "y", "s", "t">>, <<"M", "u", "m", "b", "a", "i">>, "Wellfound"),
    Rec(<<"A", "c", "m", "e", "C", "o">>, <<"D", "a", "t", "a", " ", "A", "n", "a", "l", "y", "t", "i", "c", "s">>, <<"M", "u", "m", "b", "a", "i", ",", " ", "M", "H", ",", " ", "I", "N">>, "Indeed"),
    Rec(<<"A", "c", "m", "e", " ", "C", "o">>, <<"D", "a", "t", "a", " ", "A", "n", "a", "l", "y", "s", "t">>, <<"M", "u", "m", "b", "a", "i">>, "LinkedIn"),
    Rec(<<"A", "c", "m", "e">>, <<"D", "a", "t", "a", " ", "A", "n", "a", "l", "y", "s", "t">>, <<"M", "u", "m", "b", "a", "i", " ", "(", "R", "e", "m", "o", "t", "e", ")">>, "Indeed"),
    Rec(<<"A", "c", "m", "e">>, <<"D", "a", "t", "a", " ", "A", "n", "a", "l", "y", "s", "t">>, <<>>, "LinkedIn"),
    Rec(<<"A", "c", "m", "e">>, <<"D", "a", "t", "a", " ", "A", "n", "a", "l", "y", "s", "t">>, <<"D", "e", "l", "h", "i">>, "Glassdoor"),
    Rec(<<"B", "o", "l", "t">>, <<"B", "I", " ", "A", "n", "a", "l", "y", "s", "t", "s">>, <<"P", "u", "n", "e">>, "Naukri"),
    Rec(<<"B", "o", "l", "t">>, <<"A", "n", "a", "l", "y", "s", "t", "s">>, <<"P", "u", "n", "e">>, "Indeed"),
    Rec(<<"A", "c", "m", "e">>, <<"D", "a", "t", "a", " ", "A", "n", "a", "l", "y", "s", "t">>, <<"D", "e", "l", "h", "i">>, "Naukri") >>

\* the Acme posting in Delhi from a second unrecognized source, from
\* LinkedIn, and the Acme posting in Mumbai from Naukri in other letters
MonsterDelhi == Rec(<<"A", "c", "m", "e">>, <<"D", "a", "t", "a", " ", "A", "n", "a", "l", "y", "s", "t">>, <<"D", "e", "l", "h", "i">>, "Monster")
LinkedInDelhi == Rec(<<"A", "c", "m", "e">>, <<"D", "a", "t", "a", " ", "A", "n", "a", "l", "y", "s", "t">>, <<"D", "e", "l", "h", "i">>, "LinkedIn")
NaukriCapitals == Rec(<<"A", "C", "M", "E">>, <<"D", "A", "T", "A", " ", "A", "N", "A", "L", "Y", "S", "T">>, <<"M", "u", "m", "b", "a", "i">>, "Naukri")

\* two Naukri postings of Acme whose locations score 53 in one order and 67
\* in the other with difflib's SequenceMatcher
NaukriAgra == Rec(<<"A", "c", "m", "e">>, <<"D", "a", "t", "a", " ", "A", "n", "a", "l", "y", "s", "t">>, <<"A", "g", "r", "a", "/", "N", "C", "R">>, "Naukri")
NaukriGoa == Rec(<<"A", "c", "m", "e">>, <<"D", "a", "t", "a", " ", "A", "n", "a", "l", "y", "s", "t">>, <<"G", "o", "a", " ", "N", "C", "R">>, "Naukri")

\* the lists given to the first call: every list of up to MaxJobs records of
\* the pool, the empty list, three longer ones, lists with duplicates of
\* equal priority, and the two postings above in both orders
DedupInputs ==
    SeqsUpTo({DedupPool[i] : i \in 1..Len(DedupPool)}, MaxJobs)
    \cup {<<>>,
          <<DedupPool[1], DedupPool[6], DedupPool[7]>>,
          <<DedupPool[4], DedupPool[3], DedupPool[1]>>,
          <<DedupPool[7], DedupPool[2], DedupPool[5], DedupPool[1]>>,
          <<MonsterDelhi, DedupPool[7]>>,
          <<DedupPool[7], MonsterDelhi>>,
          <<MonsterDelhi, DedupPool[2], DedupPool[7], DedupPool[8]>>,
          <<NaukriCapitals, DedupPool[1]>>,
          <<DedupPool[1], NaukriCapitals>>,
          <<DedupPool[6], LinkedInDelhi, DedupPool[1]>>,
          <<NaukriAgra, NaukriGoa>>,
          <<NaukriGoa, NaukriAgra>>}

DedupInit ==
    /\ today = SetMin(TodayChoices)
    /\ matcher \in Matchers
    /\ d_jobs \in DedupInputs
    /\ dpc = "sort" /\ dcall = 1
    /\ d_sorted = <<>> /\ didx = 0 /\ d_unique = <<>> /\ d_seen = <<>>
    /\ dret = <<>> /\ d_first = <<>>
    /\ RunIdle /\ NormIdle /\ MergeIdle /\ ItemIdle /\ WalkIdle
    /\ RaceIdle /\ SchedIdle /\ site_pages = ResultPages

\* lines 170-178: `if not jobs: return jobs`, then the stable sort
DedupSort ==
    /\ dpc = "sort"
    /\ IF d_jobs = <<>>
       THEN /\ dret' = d_jobs
            /\ dpc' = "done"
            /\ UNCHANGED <<d_sorted, didx, d_unique, d_seen>>
       ELSE /\ d_sorted' = SortByPriority(d_jobs, 1)
            /\ didx' = 1 /\ d_unique' = <<>> /\ d_seen' = <<>>
            /\ dpc' = "pass"
            /\ UNCHANGED dret
    /\ UNCHANGED <<site_pages, today, matcher, dcall, d_jobs, d_first>>
    /\ UNCHANGED <<runVars, normVars, mergeVars, itemVars, walkVars, raceVars, schedVars>>

\* DedupStep that keeps the accepted record with its company as compared
DedupStepKeepsCompared ==
    /\ dpc = "pass" /\ didx <= Len(d_sorted)
    /\ \E c \in {Triple(d_sorted[didx])} :
           IF \E k \in 1..Len(d_seen) : IsDup(matcher, c, d_seen[k])
           THEN UNCHANGED <<d_unique, d_seen>>
           ELSE /\ d_unique' = Append(d_unique, [d_sorted[didx] EXCEPT !.CompanyName = c.comp])
                /\ d_seen' = Append(d_seen, c)
    /\ didx' = didx + 1
    /\ UNCHANGED <<site_pages, today, matcher, dpc, dcall, d_jobs, d_sorted, dret, d_first>>
    /\ UNCHANGED <<runVars, normVars, mergeVars, itemVars, walkVars, raceVars, schedVars>>

\* DedupStep that compares the candidate with the last accepted record only
DedupStepComparesLast ==
    /\ dpc = "pass" /\ didx <= Len(d_sorted)
    /\ \E c \in {Triple(d_sorted[didx])} :
           IF \E k \in {Len(d_seen)} \ {0} : IsDup(matcher, c, d_seen[k])
           THEN UNCHANGED <<d_unique, d_seen>>
           ELSE /\ d_unique' = Append(d_unique, d_sorted[didx])
                /\ d_seen' = Append(d_seen, c)
    /\ didx' = didx + 1
    /\ UNCHANGED <<site_pages, today, matcher, dpc, dcall, d_jobs, d_sorted, dret, d_first>>
    /\ UNCHANGED <<runVars, normVars, mergeVars, itemVars, walkVars, raceVars, schedVars>>

\* lines 180-204: one iteration of `for job in jobs_sorted`
DedupStep ==
    /\ dpc = "pass" /\ didx <= Len(d_sorted)
    /\ \E c \in {Triple(d_sorted[didx])} :
           IF \E k \in 1..Len(d_seen) : IsDup(matcher, c, d_seen[k])
           THEN UNCHANGED <<d_unique, d_seen>>
           ELSE /\ d_unique' = Append(d_unique, d_sorted[didx])
                /\ d_seen' = Append(d_seen, c)
    /\ didx' = didx + 1
    /\ UNCHANGED <<site_pages, today, matcher, dpc, dcall, d_jobs, d_sorted, dret, d_first>>
    /\ UNCHANGED <<runVars, normVars, mergeVars, itemVars, walkVars, raceVars, schedVars>>

\* lines 206-210: return unique_jobs
DedupReturn ==
    /\ dpc = "pass" /\ didx > Len(d_sorted)
    /\ dret' = d_unique
    /\ dpc' = "done"
    /\ UNCHANGED <<site_pages, today, matcher, dcall, d_jobs, d_sorted, didx, d_unique, d_seen, d_first>>
    /\ UNCHANGED <<runVars, normVars, mergeVars, itemVars, walkVars, raceVars, schedVars>>

\* _deduplicate(_deduplicate(jobs)): the second call, on what the first returned
DedupAgain ==
    /\ dpc = "done" /\ dcall = 1 /\ mpc = "idle"
    /\ d_first' = <<d_jobs, dret>>
    /\ d_jobs' = dret
    /\ dcall' = 2 /\ dpc' = "sort"
    /\ d_sorted' = <<>> /\ didx' = 0 /\ d_unique' = <<>> /\ d_seen' = <<>> /\ dret' = <<>>
    /\ UNCHANGED <<site_pages, today, matcher>>
    /\ UNCHANGED <<runVars, normVars, mergeVars, itemVars, walkVars, raceVars, schedVars>>

DedupNext == DedupSort \/ DedupStep \/ DedupReturn \/ DedupAgain

SpecDedup == DedupInit /\ [][DedupNext]_vars

\* the statements of _deduplicate return what the operator _deduplicate gives
DedupAgrees == dpc = "done" => dret = _deduplicate(matcher, d_jobs)

---------------------------------------------------------------------------
(* SpecMerge: one call of processor.merge_with_existing, its _deduplicate  *)
(* call candidate by candidate.                                            *)

\* jobs_data.xlsx as an earlier run left it: two records, in the priority
\* order _deduplicate returns
PreviousTwo == <<
    Rec(<<"B", "o", "l", "t">>, <<"B", "I", " ", "A", "n", "a", "l", "y", "s", "t", "s">>, <<>>, "Naukri"),
    Rec(<<"A", "c", "m", "e">>, <<"D", "a", "t", "a", " ", "A", "n", "a", "l", "y", "s", "t">>, <<"M", "u", "m", "b", "a", "i">>, "Indeed") >>

\* jobs_data.xlsx as an earlier run left it: ten records of ten companies
PreviousTen == <<
    Rec(<<"A", "c", "m", "e">>, <<"D", "a", "t", "a", " ", "A", "n", "a", "l", "y", "s", "t">>, <<"P", "u", "n", "e">>, "Naukri"),
    Rec(<<"B", "o", "l", "t">>, <<"D", "a", "t", "a", " ", "A", "n", "a", "l", "y", "s", "t">>, <<"P", "u", "n", "e">>, "Naukri"),
    Rec(<<"C", "y", "a", "n">>, <<"D", "a", "t", "a", " ", "A", "n", "a", "l", "y", "s", "t">>, <<"P", "u", "n", "e">>, "Naukri"),
    Rec(<<"D", "u", "n", "e">>, <<"D", "a", "t", "a", " ", "A", "n", "a", "l", "y", "s", "t">>, <<"P", "u", "n", "e">>, "Naukri"),
    Rec(<<"E", "c", "h", "o">>, <<"D", "a", "t", "a", " ", "A", "n", "a", "l", "y", "s", "t">>, <<"P", "u", "n", "e">>, "Naukri"),
    Rec(<<"F", "e", "r", "n">>, <<"D", "a", "t", "a", " ", "A", "n", "a", "l", "y", "s", "t">>, <<"P", "u", "n", "e">>, "Naukri"),
    Rec(<<"G", "a", "l", "a">>, <<"D", "a", "t", "a", " ", "A", "n", "a", "l", "y", "s", "t">>, <<"P", "u", "n", "e">>, "Naukri"),
    Rec(<<"H", "i", "v", "e">>, <<"D", "a", "t", "a", " ", "A", "n", "a", "l", "y", "s", "t">>, <<"P", "u", "n", "e">>, "Naukri"),
    Rec(<<"I", "r", "i", "s">>, <<"D", "a", "t", "a", " ", "A", "n", "a", "l", "y", "s", "t">>, <<"P", "u", "n", "e">>, "Naukri"),
    Rec(<<"J", "a", "d", "e">>, <<"D", "a", "t", "a", " ", "A", "n", "a", "l", "y", "s", "t">>, <<"P", "u", "n", "e">>, "Naukri") >>

\* records of a new batch: duplicates of the Acme record of PreviousTwo from a
\* source of higher, of lower and of the same priority, a duplicate of its
\* Bolt record, and a new posting
BatchPool == {
    Rec(<<"A", "c", "m", "e">>, <<"D", "a", "t", "a", " ", "A", "n", "a", "l", "y", "s", "t">>, <<"M", "u", "m", "b", "a", "i">>, "Naukri"),
    Rec(<<"A", "C", "M", "E">>, <<"D", "a", "t", "a", " ", "A", "n", "a", "l", "y", "s", "t">>, <<"M", "u", "m", "b", "a", "i">>, "Wellfound"),
    Rec(<<"A", "c", "m", "e">>, <<"D", "a", "t", "a", " ", "A", "n", "a", "l", "y", "s", "t">>, <<>>, "Indeed"),
    Rec(<<"B", "o", "l", "t">>, <<"B", "I", " ", "A", "n", "a", "l", "y", "s", "t", "s">>, <<"P", "u", "n", "e">>, "LinkedIn"),
    Rec(<<"C", "y", "a", "n">>, <<"A", "n", "a", "l", "y", "s", "t">>, <<"D", "e", "l", "h", "i">>, "LinkedIn") }

\* a new batch of five as process_jobs returns it: two are postings
\* PreviousTen has, three are new
BatchOfFive == <<
    Rec(<<"C", "y", "a", "n">>, <<"D", "a", "t", "a", " ", "A", "n", "a", "l", "y", "s", "t">>, <<"P", "u", "n", "e">>, "Naukri"),
    Rec(<<"M", "e", "s", "a">>, <<"D", "a", "t", "a", " ", "A", "n", "a", "l", "y", "s", "t">>, <<"P", "u", "n", "e">>, "Naukri"),
    Rec(<<"L", "i", "m", "a">>, <<"D", "a", "t", "a", " ", "A", "n", "a", "l", "y", "s", "t">>, <<"P", "u", "n", "e">>, "LinkedIn"),
    Rec(<<"K", "i", "l", "o">>, <<"D", "a", "t", "a", " ", "A", "n", "a", "l", "y", "s", "t">>, <<"P", "u", "n", "e">>, "Indeed"),
    Rec(<<"h", "i", "v", "e">>, <<"d", "a", "t", "a", " ", "a", "n", "a", "l", "y", "s", "t">>, <<"p", "u", "n", "e">>, "Wellfound") >>

\* jobs_data.xlsx as an earlier run left it: the Acme posting in two cities,
\* which are not duplicates of each other (mumbai / delhi is below 60)
PreviousCities == <<
    Rec(<<"A", "c", "m", "e">>, <<"D", "a", "t", "a", " ", "A", "n", "a", "l", "y", "s", "t">>, <<"M", "u", "m", "b", "a", "i">>, "Indeed"),
    Rec(<<"A", "c", "m", "e">>, <<"D", "a", "t", "a", " ", "A", "n", "a", "l", "y", "s", "t">>, <<"D", "e", "l", "h", "i">>, "Indeed") >>

\* the Acme posting as Naukri has it, without a location
NaukriNoLocation == Rec(<<"A", "c", "m", "e">>, <<"D", "a", "t", "a", " ", "A", "n", "a", "l", "y", "s", "t">>, <<>>, "Naukri")

\* the calls followed: [file, batch]; the batch is what process_jobs makes of
\* the records (main.py lines 81-85)
MergeInputs ==
    {[file |-> f, batch |-> b] :
        f \in {NoFile, CorruptFile, File(WriteRows(PreviousTwo))},
        b \in SeqsUpTo(BatchPool, MaxJobs) \cup {<<>>}}
    \cup {[file |-> File(WriteRows(PreviousTen)), batch |-> BatchOfFive],
          [file |-> File(WriteRows(PreviousCities)), batch |-> <<NaukriNoLocation>>],
          [file |-> File(WriteRows(PreviousCities)), batch |-> <<NaukriNoLocation, BatchOfFive[3]>>]}

MergeInit ==
    /\ today = SetMin(TodayChoices)
    /\ matcher \in Matchers
    /\ \E in \in MergeInputs :
          existing_file = in.file /\ m_new = _deduplicate(matcher, in.batch)
    /\ mpc = "read" /\ existing_records = <<>> /\ new_count = 0 /\ merged = <<>>
    /\ RunIdle /\ NormIdle /\ DedupIdle /\ ItemIdle /\ WalkIdle
    /\ RaceIdle /\ SchedIdle /\ site_pages = ResultPages

\* lines 218-231: the file is read; when that raises, new_jobs is returned,
\* else _deduplicate is called on existing_records + new_jobs
MergeRead ==
    /\ mpc = "read"
    /\ IF ~existing_file.exists \/ existing_file.corrupt
       THEN /\ merged' = m_new
            /\ mpc' = "done"
            /\ UNCHANGED <<existing_records, dedupVars>>
       ELSE /\ existing_records' = ReadRows(existing_file.rows)
            /\ d_jobs' = existing_records' \o m_new
            /\ dpc' = "sort" /\ dcall' = 1
            /\ mpc' = "dedup"
            /\ UNCHANGED <<merged, d_sorted, didx, d_unique, d_seen, dret, d_first>>
    /\ UNCHANGED <<site_pages, today, matcher, existing_file, m_new, new_count>>
    /\ UNCHANGED <<runVars, normVars, itemVars, walkVars, raceVars, schedVars>>

\* MergeReturn that counts every record of the new batch as new
MergeReturnCountsBatch ==
    /\ mpc = "dedup" /\ dpc = "done"
    /\ new_count' = Len(m_new)
    /\ merged' = dret
    /\ mpc' = "done"
    /\ UNCHANGED <<site_pages, today, matcher, existing_file, m_new, existing_records>>
    /\ UNCHANGED <<runVars, normVars, dedupVars, itemVars, walkVars, raceVars, schedVars>>

\* MergeReturn that counts the records of the merged set that are not
\* previous ones
MergeReturnCountsEntered ==
    /\ mpc = "dedup" /\ dpc = "done"
    /\ new_count' = Cardinality({k \in 1..Len(dret) :
                        \A i \in 1..Len(existing_records) : dret[k] # existing_records[i]})
    /\ merged' = dret
    /\ mpc' = "done"
    /\ UNCHANGED <<site_pages, today, matcher, existing_file, m_new, existing_records>>
    /\ UNCHANGED <<runVars, normVars, dedupVars, itemVars, walkVars, raceVars, schedVars>>

\* lines 233-237: the count logged is max(0, new_count); deduped is returned
MergeReturn ==
    /\ mpc = "dedup" /\ dpc = "done"
    /\ new_count' = SetMax({0, Len(dret) - Len(existing_records)})
    /\ merged' = dret
    /\ mpc' = "done"
    /\ UNCHANGED <<site_pages, today, matcher, existing_file, m_new, existing_records>>
    /\ UNCHANGED <<runVars, normVars, dedupVars, itemVars, walkVars, raceVars, schedVars>>

MergeNext == MergeRead \/ DedupSort \/ DedupStep \/ DedupReturn \/ MergeReturn

SpecMerge == MergeInit /\ [][MergeNext]_vars

\* the statements of merge_with_existing return what the operator gives
MergeAgrees == mpc = "done" => merged = merge_with_existing(matcher, m_new, existing_file)

---------------------------------------------------------------------------
(* SpecItem: what a site serves is followed from the scraper's parse to    *)
(* the output of process_jobs.                                             *)

Variants == {"Naukri", "Indeed", "WellfoundHtml", "WellfoundPayload", "LinkedIn"}

WellfoundVariants == {"WellfoundHtml", "WellfoundPayload"}

\* the title and the company of an item: present, missing, empty
ItemTitles == {<<"A", "n", "a", "l", "y", "s", "t">>, Absent, <<>>}

ItemCompanies == {<<"A", "c", "m", "e">>, Absent, <<>>}

ItemLocations == {<<"P", "u", "n", "e">>, <<"P", "a", "r", "i", "s">>, <<"R", "E", "M", "O", "T", "E", ",", " ", "I", "N", "D", "I", "A">>, <<"I", "n", "d", "i", "a", "n", "a", "p", "o", "l", "i", "s">>, Absent}

\* a row of the frame of scrape_jobs, without amounts
Row(title, company, location) ==
    [company |-> company, title |-> title, location |-> location,
     min_amount |-> 0, max_amount |-> 0, currency |-> Absent, interval |-> Absent,
     date_posted |-> Absent, job_url |-> <<"h", "t", "t", "p", ":", "/", "/", "l", ".", "i", "n", "/", "1">>]

\* the items a site of each variant can serve: one item of any shape, or, on
\* Wellfound, two complete items
ItemInputs == [v \in Variants |->
    CASE v \in {"Naukri", "Indeed", "WellfoundHtml"} ->
            {<<Card(t, <<"/", "j", "/", "1">>, c, l, Absent, Absent)>> :
                t \in ItemTitles, c \in ItemCompanies, l \in ItemLocations}
            \cup (IF v = "WellfoundHtml"
                  THEN {<<Card(<<"A", "n", "a", "l", "y", "s", "t">>, <<"/", "j", "/", "1">>, <<"A", "c", "m", "e">>, l1, Absent, Absent),
                          Card(<<"E", "n", "g", "i", "n", "e", "e", "r">>, <<"/", "j", "/", "2">>, <<"B", "o", "l", "t">>, l2, Absent, Absent)>> :
                            l1, l2 \in ItemLocations}
                  ELSE {})
      [] v = "WellfoundPayload" ->
            {<<Obj(t, c, n, l, Absent, <<"/", "j", "/", "1">>, Absent)>> :
                t \in ItemTitles, c \in ItemCompanies, n \in {Absent, <<"A", "c", "m", "e">>},
                l \in ItemLocations}
            \cup {<<Obj(<<"A", "n", "a", "l", "y", "s", "t">>, <<"A", "c", "m", "e">>, Absent, l1, Absent, <<"/", "j", "/", "1">>, Absent),
                    Obj(<<"E", "n", "g", "i", "n", "e", "e", "r">>, <<"B", "o", "l", "t">>, Absent, l2, Absent, <<"/", "j", "/", "2">>, Absent)>> :
                      l1, l2 \in ItemLocations}
      [] v = "LinkedIn" ->
            {<<Row(t, c, l)>> : t \in ItemTitles, c \in ItemCompanies, l \in ItemLocations}]

\* the jobs a scraper makes of the items of one page: naukri.py lines 47-76,
\* indeed.py lines 59-83, wellfound.py lines 50-61, linkedin.py lines 39-47
ExtractItems(v, its) ==
    CASE v = "Naukri" -> NaukriParsePage(Page(its, <<>>, FALSE))
      [] v = "Indeed" -> IndeedParsePage(Page(its, <<>>, FALSE))
      [] v = "LinkedIn" -> ConvertRows(its, 1)
      [] v \in WellfoundVariants ->
            LET text == IF v = "WellfoundHtml" THEN Page(its, <<>>, FALSE)
                        ELSE Page(<<>>, its, FALSE)
                apollo_jobs == _parse_apollo_state(text)
            IN  IF apollo_jobs # <<>> THEN apollo_jobs ELSE _parse_html(text)

ItemInit ==
    /\ today = SetMin(TodayChoices)
    /\ matcher \in Matchers
    /\ variant \in Variants
    /\ items \in ItemInputs[variant]
    /\ xpc = "extract" /\ extracted = <<>> /\ india_jobs = <<>> /\ canonical = <<>>
    /\ RunIdle /\ NormIdle /\ DedupIdle /\ MergeIdle /\ WalkIdle
    /\ RaceIdle /\ SchedIdle /\ site_pages = ResultPages

\* the scraper parses the page
ItemExtract ==
    /\ xpc = "extract"
    /\ \E jobs \in {ExtractItems(variant, items)} : extracted' = jobs
    /\ xpc' = IF variant \in WellfoundVariants THEN "filter" ELSE "process"
    /\ UNCHANGED <<site_pages, today, matcher, variant, items, india_jobs, canonical>>
    /\ UNCHANGED <<runVars, normVars, dedupVars, mergeVars, walkVars, raceVars, schedVars>>

\* wellfound.py lines 65-68: scrape returns _filter_india(all_jobs)
ItemFilter ==
    /\ xpc = "filter"
    /\ \E jobs \in {_filter_india(extracted)} : india_jobs' = jobs
    /\ xpc' = "process"
    /\ UNCHANGED <<site_pages, today, matcher, variant, items, extracted, canonical>>
    /\ UNCHANGED <<runVars, normVars, dedupVars, mergeVars, walkVars, raceVars, schedVars>>

\* main.py line 81: process_jobs on what the scraper returned
ItemProcess ==
    /\ xpc = "process"
    /\ \E r \in {process_jobs(matcher, today,
                              IF variant \in WellfoundVariants THEN india_jobs
                              ELSE extracted)} :
          canonical' = r.jobs
    /\ xpc' = "done"
    /\ UNCHANGED <<site_pages, today, matcher, variant, items, extracted, india_jobs>>
    /\ UNCHANGED <<runVars, normVars, dedupVars, mergeVars, walkVars, raceVars, schedVars>>

ItemNext == ItemExtract \/ ItemFilter \/ ItemProcess

SpecItem == ItemInit /\ [][ItemNext]_vars

---------------------------------------------------------------------------
(* SpecWalk: wellfound.py lines 105-122, _extract_jobs_from_json call by   *)
(* call.  A payload is a sequence of nodes, the root first; a node names   *)
(* its parent (0 for the root), and the values of a dict or the items of   *)
(* a list are its children in the order of their indices.  The stack holds *)
(* the calls still to be made, as <<node, depth>>, the next one first.     *)

\* wellfound.py line 107: if depth > 15: return
DepthCap == 15

\* a dict without any of the keys _json_to_job reads
NoKeys == Obj(Absent, Absent, Absent, Absent, Absent, Absent, Absent)

JobKeys == Obj(<<"A", "n", "a", "l", "y", "s", "t">>, <<"A", "c", "m", "e">>, Absent, <<"P", "u", "n", "e">>, Absent, <<"/", "j", "/", "1">>, Absent)

\* kind is "dict", "list" or "scalar"; obj holds the str values of a dict;
\* url_int says that the value of "url" is a JSON number, written in obj.url
Node(parent, kind, obj, url_int) ==
    [parent |-> parent, kind |-> kind, obj |-> obj, url_int |-> url_int]

\* n dicts, each the one value of the one before; those from jobFrom on are
\* job-shaped
DictChain(n, jobFrom) ==
    [i \in 1..n |-> Node(i - 1, "dict", IF i >= jobFrom THEN JobKeys ELSE NoKeys, FALSE)]

\* a list holding a dict holding a list ...; the dicts are job-shaped
MixedChain(n) ==
    [i \in 1..n |-> IF i % 2 = 1 THEN Node(i - 1, "list", NoKeys, FALSE)
                    ELSE Node(i - 1, "dict", JobKeys, FALSE)]

\* {"title": .., "company": .., "url": 7}
JobWithNumberUrl == [JobKeys EXCEPT !.url = <<"7">>]

Payloads ==
    {DictChain(n, 1) : n \in 1..(DepthCap + 3)}
    \cup {DictChain(DepthCap + 3, DepthCap), MixedChain(DepthCap + 3)}
    \cup {\* a job with a job, a list of a scalar and a plain dict inside it
          <<Node(0, "dict", JobKeys, FALSE), Node(1, "dict", [JobKeys EXCEPT !.company = <<"B", "o", "l", "t">>], FALSE),
            Node(1, "list", NoKeys, FALSE), Node(3, "scalar", NoKeys, FALSE),
            Node(1, "dict", NoKeys, FALSE)>>,
          \* a list of two jobs, the first with a number for its url and a
          \* dict inside it
          <<Node(0, "list", NoKeys, FALSE), Node(1, "dict", JobWithNumberUrl, TRUE),
            Node(1, "dict", [JobKeys EXCEPT !.company = <<"B", "o", "l", "t">>], FALSE),
            Node(2, "dict", NoKeys, FALSE)>>,
          \* a dict of three jobs, the second with a number for its url
          <<Node(0, "dict", NoKeys, FALSE), Node(1, "dict", JobKeys, FALSE),
            Node(1, "dict", JobWithNumberUrl, TRUE),
            Node(1, "dict", [JobKeys EXCEPT !.company = <<"B", "o", "l", "t">>], FALSE)>>,
          \* a payload that is a scalar
          <<Node(0, "scalar", NoKeys, FALSE)>>}

\* the children of node n of the payload, in order
Children(n) == SelectSeq([i \in 1..Len(data) |-> i], LAMBDA i : data[i].parent = n)

\* lines 116-117, 120-121: the calls on the children of node n, made at
\* depth + 1
Calls(n, depth) == [k \in 1..Len(Children(n)) |-> <<Children(n)[k], depth + 1>>]

\* wellfound.py lines 150-152: link = obj.get("url") or ..., then
\* link.startswith("http"): a number that is not 0 has no startswith
JsonToJobRaises(node) ==
    node.url_int /\ node.obj.url # Absent /\ node.obj.url # <<"0">>

WalkInit ==
    /\ today = SetMin(TodayChoices)
    /\ matcher = "difflib"
    /\ data \in Payloads
    /\ stack = << <<1, 0>> >>
    /\ inspected = <<>> /\ w_jobs = <<>> /\ wpc = "walk"
    /\ RunIdle /\ NormIdle /\ DedupIdle /\ MergeIdle /\ ItemIdle
    /\ RaceIdle /\ SchedIdle /\ site_pages = ResultPages

\* lines 107-108: a call at a depth over the cap returns at once
WalkReturnDeep ==
    /\ wpc = "walk" /\ stack # <<>>
    /\ stack[1][2] > DepthCap
    /\ stack' = Tail(stack)
    /\ UNCHANGED <<site_pages, today, matcher, wpc, data, inspected, w_jobs>>
    /\ UNCHANGED <<runVars, normVars, dedupVars, mergeVars, itemVars, raceVars, schedVars>>

\* lines 110-117: a dict; a job-shaped one is converted and appended, then
\* the calls on its values follow
WalkDict ==
    /\ wpc = "walk" /\ stack # <<>>
    /\ stack[1][2] <= DepthCap
    /\ data[stack[1][1]].kind = "dict"
    /\ ~(_is_job_object(data[stack[1][1]].obj) /\ JsonToJobRaises(data[stack[1][1]]))
    /\ inspected' = Append(inspected, stack[1])
    /\ w_jobs' = w_jobs \o (IF _is_job_object(data[stack[1][1]].obj)
                            THEN _json_to_job(data[stack[1][1]].obj) ELSE <<>>)
    /\ stack' = Calls(stack[1][1], stack[1][2]) \o Tail(stack)
    /\ UNCHANGED <<site_pages, today, matcher, wpc, data>>
    /\ UNCHANGED <<runVars, normVars, dedupVars, mergeVars, itemVars, raceVars, schedVars>>

\* lines 112-113 with 150-151: _json_to_job raises AttributeError; no call of
\* the walk catches it, so every pending call is abandoned (the except of
\* _parse_apollo_state, line 96, ends the script's walk)
WalkDictRaise ==
    /\ wpc = "walk" /\ stack # <<>>
    /\ stack[1][2] <= DepthCap
    /\ data[stack[1][1]].kind = "dict"
    /\ _is_job_object(data[stack[1][1]].obj) /\ JsonToJobRaises(data[stack[1][1]])
    /\ inspected' = Append(inspected, stack[1])
    /\ stack' = <<>>
    /\ wpc' = "raised"
    /\ UNCHANGED <<site_pages, today, matcher, data, w_jobs>>
    /\ UNCHANGED <<runVars, normVars, dedupVars, mergeVars, itemVars, raceVars, schedVars>>

\* lines 119-121: a list; the calls on its items follow
WalkList ==
    /\ wpc = "walk" /\ stack # <<>>
    /\ stack[1][2] <= DepthCap
    /\ data[stack[1][1]].kind = "list"
    /\ inspected' = Append(inspected, stack[1])
    /\ stack' = Calls(stack[1][1], stack[1][2]) \o Tail(stack)
    /\ UNCHANGED <<site_pages, today, matcher, wpc, data, w_jobs>>
    /\ UNCHANGED <<runVars, normVars, dedupVars, mergeVars, itemVars, raceVars, schedVars>>

\* lines 110, 119: neither a dict nor a list; the call returns
WalkScalar ==
    /\ wpc = "walk" /\ stack # <<>>
    /\ stack[1][2] <= DepthCap
    /\ data[stack[1][1]].kind = "scalar"
    /\ inspected' = Append(inspected, stack[1])
    /\ stack' = Tail(stack)
    /\ UNCHANGED <<site_pages, today, matcher, wpc, data, w_jobs>>
    /\ UNCHANGED <<runVars, normVars, dedupVars, mergeVars, itemVars, raceVars, schedVars>>

\* the outermost call has returned
WalkReturn ==
    /\ wpc = "walk" /\ stack = <<>>
    /\ wpc' = "done"
    /\ UNCHANGED <<site_pages, today, matcher, data, stack, inspected, w_jobs>>
    /\ UNCHANGED <<runVars, normVars, dedupVars, mergeVars, itemVars, raceVars, schedVars>>

WalkNext ==
    \/ WalkReturnDeep
    \/ WalkDict
    \/ WalkDictRaise
    \/ WalkList
    \/ WalkScalar
    \/ WalkReturn

SpecWalk == WalkInit /\ [][WalkNext]_vars

\* the walk of a fair scheduler: a call that can be made is made
FairSpecWalk == SpecWalk /\ WF_vars(WalkNext)

---------------------------------------------------------------------------
(* SpecRace: two runs of main.run_agent against the same jobs_data.xlsx,   *)
(* from the moment each has its processed_jobs.  A run reads the file in   *)
(* its merge (main.py lines 84-87) and writes it in export_to_excel (lines *)
(* 100-103); the statements between (lead update, lines 90-94) and after   *)
(* (csv export, summary) do not touch the file.  Nothing locks the file,   *)
(* so the statements of the two runs interleave freely.                    *)

Runs == {1, 2}

\* processed_jobs of a run, as process_jobs returns them: new postings, and
\* the Acme posting of PreviousTwo as Naukri has it
RaceBatches == {
    <<>>,
    <<BatchOfFive[4]>>,
    <<BatchOfFive[3]>>,
    <<BatchOfFive[3], BatchOfFive[4]>>,
    <<Rec(<<"A", "c", "m", "e">>, <<"D", "a", "t", "a", " ", "A", "n", "a", "l", "y", "s", "t">>, <<"M", "u", "m", "b", "a", "i">>, "Naukri")>> }

\* jobs_data.xlsx when the runs start
RaceStores == {NoFile, CorruptFile, File(WriteRows(PreviousTwo))}

RaceInit ==
    /\ today = SetMin(TodayChoices)
    /\ matcher \in Matchers
    /\ store \in RaceStores
    /\ r_batch \in [Runs -> RaceBatches]
    /\ rpc = [r \in Runs |-> "merge"]
    /\ r_final = [r \in Runs |-> <<>>]
    /\ race_log = <<>>
    /\ RunIdle /\ NormIdle /\ DedupIdle /\ MergeIdle /\ ItemIdle /\ WalkIdle
    /\ SchedIdle /\ site_pages = ResultPages

\* RaceMerge with the bug of never reading the file
RaceMergeNoBaseline ==
    \E r \in Runs :
        /\ rpc[r] = "merge"
        /\ r_final' = [r_final EXCEPT ![r] = r_batch[r]]
        /\ rpc' = [rpc EXCEPT ![r] = "excel"]
        /\ race_log' = Append(race_log, [run |-> r, op |-> "read", done |-> TRUE, file |-> store])
        /\ UNCHANGED <<site_pages, today, matcher, store, r_batch>>
        /\ UNCHANGED <<runVars, normVars, dedupVars, mergeVars, itemVars, walkVars, schedVars>>

\* main.py lines 84-87 of one run: final_jobs is the merge of its batch with
\* the file as it is now, or the batch when there is no file
RaceMerge ==
    \E r \in Runs :
        /\ rpc[r] = "merge"
        /\ r_final' = [r_final EXCEPT ![r] =
                          IF store.exists THEN merge_with_existing(matcher, r_batch[r], store)
                          ELSE r_batch[r]]
        /\ rpc' = [rpc EXCEPT ![r] = "excel"]
        /\ race_log' = Append(race_log, [run |-> r, op |-> "read", done |-> TRUE, file |-> store])
        /\ UNCHANGED <<site_pages, today, matcher, store, r_batch>>
        /\ UNCHANGED <<runVars, normVars, dedupVars, mergeVars, itemVars, walkVars, schedVars>>

\* main.py lines 100-103 of one run: export_to_excel(final_jobs) replaces the
\* file, unless final_jobs is empty or the write fails
RaceExport ==
    \E r \in Runs, failed \in BOOLEAN :
        /\ rpc[r] = "excel"
        /\ store' = ExportTo(store, r_final[r], failed)
        /\ rpc' = [rpc EXCEPT ![r] = "done"]
        /\ race_log' = Append(race_log, [run |-> r, op |-> "write",
                                         done |-> ~failed /\ r_final[r] # <<>>,
                                         file |-> store'])
        /\ UNCHANGED <<site_pages, today, matcher, r_batch, r_final>>
        /\ UNCHANGED <<runVars, normVars, dedupVars, mergeVars, itemVars, walkVars, schedVars>>

RaceNext == RaceMerge \/ RaceExport

SpecRace == RaceInit /\ [][RaceNext]_vars

---------------------------------------------------------------------------
(* The claims, checked under the specification each names.                 *)

\* the rule of _normalize_date that decides the record process_jobs is at
RawRule == DaysAgoOf(Lower(Strip(raw.DatePosted)), today)

\* s reads "dd Mon yyyy"
IsDdMonYyyy(s) ==
    /\ Len(s) = 11
    /\ IsDigit(s[1]) /\ IsDigit(s[2]) /\ s[3] = " "
    /\ \E i \in 1..12 : Lower(SubSeq(s, 4, 6)) = MonthAbbr[i] /\ s[4] = UpperChar(MonthAbbr[i][1])
    /\ s[7] = " "
    /\ \A i \in 8..11 : IsDigit(s[i])

\* C6: a record whose raw date is empty or only whitespace leaves
\* _normalize_date with the category Unknown, an empty date and every other
\* field as it was.
C6_EmptyDate ==
    (npc = "salary" /\ Strip(raw.DatePosted) = <<>>) =>
        job = [raw EXCEPT !.DatePosted = <<>>, !.PostingCategory = "Unknown"]

\* C6 witness: process_jobs has normalised a record scraped with a
\* whitespace-only date
C6_Witness ==
    /\ npc = "salary"
    /\ in_args[nidx].date_posted = <<" ", " ", " ">>
    /\ raw.DatePosted = <<>>
    /\ job.PostingCategory = "Unknown" /\ job.DatePosted = <<>>

\* C7 as claimed: a non-empty raw date that no rule matches gives the
\* category Unknown and an empty date, so a normalised date is "dd Mon yyyy"
\* or empty.
C7_Original ==
    npc = "salary" =>
        /\ (raw.DatePosted # <<>> /\ RawRule.rule = 0) =>
               (job.PostingCategory = "Unknown" /\ job.DatePosted = <<>>)
        /\ job.DatePosted = <<>> \/ IsDdMonYyyy(job.DatePosted)

\* C7 amended: a non-empty raw date that no rule matches gives the category
\* Unknown and keeps the raw text as the date, every other field unchanged;
\* so a normalised date is "dd Mon yyyy", empty, or the raw text of a record
\* whose category is Unknown.
C7_KeepsRawText ==
    npc = "salary" =>
        /\ (raw.DatePosted # <<>> /\ RawRule.rule = 0) =>
               job = [raw EXCEPT !.PostingCategory = "Unknown"]
        /\ \/ job.DatePosted = <<>>
           \/ IsDdMonYyyy(job.DatePosted)
           \/ job.DatePosted = raw.DatePosted /\ job.PostingCategory = "Unknown"

\* C7 witness: the date text "recently" went through _normalize_date
C7_Witness ==
    /\ npc = "salary"
    /\ raw.DatePosted = <<"r", "e", "c", "e", "n", "t", "l", "y">>
    /\ job.DatePosted = raw.DatePosted
    /\ job.PostingCategory = "Unknown"

\* C8: when _normalize_date determines days_ago = d, the category is Today
\* iff d = 0, Yesterday iff d = 1, 2 Days Ago iff d = 2, 3-7 Days Ago iff
\* 3 <= d <= 7 and More Than 1 Week Ago iff d > 7.
C8_Buckets ==
    (npc = "salary" /\ RawRule.rule # 0) =>
        LET d == RawRule.days_ago
            c == job.PostingCategory
        IN  /\ (c = "Posted Today") <=> (d = 0)
            /\ (c = "Posted Yesterday") <=> (d = 1)
            /\ (c = "Posted 2 Days Ago") <=> (d = 2)
            /\ (c = "Posted 3-7 Days Ago") <=> (3 <= d /\ d <= 7)
            /\ (c = "Posted More Than 1 Week Ago") <=> (d > 7)

\* the values the claim lists as no salary
C9_NoSalaryWords == NullWords \ {<<>>}

\* C9: after _normalize_salary the salary is never empty: it is "NULL" when
\* the trimmed input is empty or, whatever its case, one of null, none, n/a,
\* not disclosed, not mentioned; otherwise it is the input, unchanged.
C9_Salary ==
    npc = "valid" =>
        LET s == raw.SalaryPackage
            t == Lower(Strip(s))
        IN  /\ job.SalaryPackage # <<>>
            /\ job.SalaryPackage = IF t = <<>> \/ t \in C9_NoSalaryWords THEN NULL ELSE s
            /\ job = [raw EXCEPT !.DatePosted = job.DatePosted,
                                 !.PostingCategory = job.PostingCategory,
                                 !.SalaryPackage = job.SalaryPackage]

\* C9 witness: a salary scraped as whitespace reached _normalize_salary as
\* the empty string and left it as "NULL"
C9_Witness ==
    /\ npc = "valid"
    /\ in_args[nidx].salary = <<" ", " ">>
    /\ raw.SalaryPackage = <<>>
    /\ job.SalaryPackage = NULL

\* validate as the claim words it
C10_Accepts(j) ==
    /\ Strip(j.CompanyName) # <<>>
    /\ Lower(Strip(j.CompanyName)) # Unknown
    /\ Strip(j.JobTitle) # <<>>

\* C10: process_jobs keeps a record iff its trimmed company is non-empty and
\* not "unknown" in any case and its trimmed title is non-empty; every record
\* it returns is such a record; a rejected record is dropped and the loop goes
\* on to the next record.
C10_Validate ==
    /\ [](npc = "done" => \A k \in 1..Len(deduped) : C10_Accepts(deduped[k]))
    /\ [][npc = "valid" =>
            /\ npc' = "loop" /\ nidx' = nidx + 1
            /\ processed' = IF C10_Accepts(job) THEN Append(processed, job)
                            ELSE processed]_vars

\* C10 witness: process_jobs returned the second of two records, the first
\* having been rejected
C10_Witness ==
    /\ npc = "done"
    /\ Len(in_jobs) = 2
    /\ ~C10_Accepts(in_jobs[1])
    /\ C10_Accepts(in_jobs[2])
    /\ Len(deduped) = 1
    /\ deduped[1].CompanyName = in_jobs[2].CompanyName

\* the log of the running _fetch call holds a 200
Got200 == \E i \in 1..Len(fetchLog) : fetchLog[i].status = 200

\* C1: whatever the outcomes of the attempts, _fetch makes no attempt after
\* one that got status 200 and returns that attempt's response; when none of
\* the first MAX_RETRIES attempts got 200 it has made exactly MAX_RETRIES
\* attempts and returns None.
C1_FetchResult ==
    /\ attempt = Len(fetchLog)
    /\ \A i \in 1..Len(fetchLog) : fetchLog[i].status = 200 => i = Len(fetchLog)
    /\ Got200 => spc = "returned"
    /\ spc = "returned" =>
           IF Got200
           THEN resp = Response(Len(fetchLog), EmptyPage)
           ELSE resp = NoResponse /\ Len(fetchLog) = MAX_RETRIES

\* C1 witness: a 403 and a network error, then a 200 at the third attempt
C1_Witness ==
    /\ spc = "returned"
    /\ Len(fetchLog) = 3
    /\ fetchLog[1].status = 403
    /\ fetchLog[2].status = RequestException
    /\ fetchLog[3].status = 200
    /\ resp.attempt = 3

RECURSIVE JobsOf(_, _)
\* the records the first n iterations of the running scrape call collected
JobsOf(ps, n) == IF n = 0 THEN <<>> ELSE JobsOf(ps, n - 1) \o ps[n].jobs

\* a scrape call of a scraper that drives _fetch over pages or urls is running
\* or has just ended
Paging == pc = "scrape" /\ src \in {1, 2, 4}

\* iteration i of the running scrape call got None from _fetch
FetchFailed(i) == ~pages[i].fetched

\* iteration i of the running scrape call fetched a page and parsed no job
\* from it (the parser did not raise)
ZeroCandidates(i) ==
    /\ pages[i].fetched
    /\ pages[i].jobs = <<>>
    /\ ~(i = Len(pages) /\ spc = "raised")

\* after a failed fetch there is no further fetch, and scrape returns the
\* records of the pages before it
StopsAtFailure ==
    \A i \in 1..Len(pages) :
        FetchFailed(i) =>
            /\ i = Len(pages)
            /\ spc = "returned"
            /\ ret = Returned(JobsOf(pages, i - 1))

\* C3 as claimed: in Naukri, Indeed and Wellfound, once a fetch returns None
\* the scrape call fetches nothing more and returns exactly the records of
\* the pages fetched before the failure.
C3_Original == Paging => StopsAtFailure

\* C3 amended: in Naukri and Indeed, once a fetch returns None the scrape call
\* fetches nothing more and returns exactly the records of the pages fetched
\* before the failure.  In Wellfound a failed fetch only skips that url: the
\* next url is fetched, unless it was the last; the loop ends at the first
\* url that yields records, or after the last url, and scrape returns the
\* records of that url that pass the India filter (none if no url yielded any).
C3_StopsOrSkips ==
    /\ (pc = "scrape" /\ src \in {1, 2}) => StopsAtFailure
    /\ (pc = "scrape" /\ src = 4) =>
           /\ \A i \in 1..Len(pages) :
                  FetchFailed(i) =>
                      /\ pages[i].jobs = <<>> /\ ~pages[i].rate_limit
                      /\ (i = Len(pages) /\ i < Len(urls)) =>
                             (spc = "loop" /\ page = i + 1)
                      /\ (i = Len(pages) /\ i = Len(urls)) => spc = "returned"
           /\ \A i \in 1..(Len(pages) - 1) : pages[i].jobs = <<>>
           /\ spc = "returned" =>
                  /\ Len(pages) = Len(urls) \/ pages[Len(pages)].jobs # <<>>
                  /\ ret = Returned(_filter_india(pages[Len(pages)].jobs))

\* C3 witness: Naukri's second fetch failed after a first page with one job,
\* and scrape returned that one job
C3_Witness ==
    /\ pc = "scrape" /\ src = 1 /\ spc = "returned"
    /\ Len(pages) = 2
    /\ pages[1].fetched /\ Len(pages[1].jobs) = 1
    /\ FetchFailed(2)
    /\ resp = NoResponse /\ attempt = MAX_RETRIES
    /\ ret = Returned(pages[1].jobs)

\* Wellfound went on to its second url after the fetch of the first failed,
\* and returned the jobs of the second
WellfoundSkipsFailedUrl ==
    /\ pc = "scrape" /\ src = 4 /\ spc = "returned"
    /\ Len(pages) = 2
    /\ FetchFailed(1)
    /\ pages[2].fetched /\ pages[2].jobs # <<>>
    /\ ret.jobs # <<>>

\* after a fetched page without candidates there is no further fetch, and
\* when that page is the first, scrape returns no record
StopsAtZeroCandidates ==
    \A i \in 1..Len(pages) :
        ZeroCandidates(i) =>
            /\ i = Len(pages)
            /\ spc = "returned"
            /\ i = 1 => ret = Returned(<<>>)

\* run_agent takes the result of a scrape call whose first page was fetched
\* and had no candidates: 0 records for the source, and on to the next source
\* (to process_jobs after the last)
ZeroFirstPageCollected ==
    (Paging /\ spc = "returned" /\ ZeroCandidates(1)) =>
        /\ platform_stats' = Append(platform_stats, <<scrapers[src], 0>>)
        /\ all_jobs' = all_jobs
        /\ IF src < Len(scrapers)
           THEN pc' = "scrape" /\ src' = src + 1 /\ spc' = "loop" /\ pages' = <<>>
           ELSE pc' = "process"

\* C4 as claimed: in Naukri, Indeed and Wellfound, after a fetched page that
\* parses to zero candidates the scrape call fetches nothing more; a source
\* whose first page parses to zero candidates contributes 0 records and the
\* run goes on to the remaining sources.
C4_Original ==
    /\ [](Paging => StopsAtZeroCandidates)
    /\ [][ZeroFirstPageCollected]_vars

\* C4 amended: in Naukri and Indeed, after a fetched page that parses to zero
\* candidates the scrape call fetches nothing more; when that page is the
\* first, the source contributes 0 records and the run goes on to the next
\* source.  In Wellfound a url that parses to zero candidates is followed,
\* after the rate-limit delay, by the fetch of the next url, unless it was
\* the last; Wellfound contributes the records of the first url that yields
\* any, India-filtered, and 0 records when no url yields any; the run then
\* goes on to process_jobs.
C4_StopsOrTriesNext ==
    /\ []((pc = "scrape" /\ src \in {1, 2}) => StopsAtZeroCandidates)
    /\ [][(pc = "scrape" /\ src \in {1, 2}) => ZeroFirstPageCollected]_vars
    /\ []((pc = "scrape" /\ src = 4) =>
            \A i \in 1..Len(pages) :
                ZeroCandidates(i) =>
                    /\ pages[i].rate_limit
                    /\ (i = Len(pages) /\ i < Len(urls)) =>
                           (spc = "loop" /\ page = i + 1)
                    /\ (i = Len(pages) /\ i = Len(urls)) =>
                           (spc = "returned" /\ ret = Returned(<<>>)))
    /\ [][(pc = "scrape" /\ src = 4 /\ spc = "returned") =>
            /\ platform_stats' = Append(platform_stats,
                   <<"Wellfound", Len(_filter_india(pages[Len(pages)].jobs))>>)
            /\ all_jobs' = all_jobs \o _filter_india(pages[Len(pages)].jobs)
            /\ pc' = "process"]_vars

\* C4 witness: Indeed's first page was fetched and had no candidates; Indeed
\* is in the summary with 0 records and LinkedIn's scrape call is next
C4_Witness ==
    /\ pc = "scrape" /\ src = 3 /\ spc = "loop"
    /\ Len(calls) = 2
    /\ calls[2] = [name |-> "Indeed", raised |-> FALSE, failed |-> FALSE]
    /\ platform_stats[2] = <<"Indeed", 0>>

\* Wellfound fetched its second url after the first had no candidates
WellfoundTriesNextUrl ==
    /\ pc = "scrape" /\ src = 4
    /\ Len(pages) = 2
    /\ pages[1].fetched /\ pages[1].jobs = <<>> /\ pages[1].rate_limit
    /\ pages[2].fetched /\ pages[2].jobs # <<>>

\* the scrape call that just ended failed: it raised, or every _fetch of it
\* exhausted its retries
CallFailed == ret.raised \/ AllFetchesFailed

\* the scrape calls made so far are those of the first sources, in the fixed
\* order, and no stage after scraping starts before every source was called
SourcesInOrder ==
    /\ Len(calls) <= Len(scrapers)
    /\ \A i \in 1..Len(calls) : calls[i].name = scrapers[i]
    /\ pc = "scrape" => src = Len(calls) + 1
    /\ pc # "scrape" => Len(calls) = Len(scrapers)

\* the run summary has one line per call made, with 0 jobs for a failed one
SummaryOfCalls ==
    /\ Len(platform_stats) = Len(calls)
    /\ \A i \in 1..Len(calls) :
           /\ platform_stats[i][1] = calls[i].name
           /\ calls[i].failed => platform_stats[i][2] = 0

\* run_agent after a scrape call ended: a failed call adds nothing to all_jobs
\* and 0 to the summary, another adds its records and their number; then the
\* next source is scraped, or process_jobs runs after the last
AfterCall ==
    (pc = "scrape" /\ spc \in {"returned", "raised"}) =>
        /\ all_jobs' = IF CallFailed THEN all_jobs ELSE all_jobs \o ret.jobs
        /\ platform_stats' = Append(platform_stats,
               <<scrapers[src], IF CallFailed THEN 0 ELSE Len(ret.jobs)>>)
        /\ calls' = Append(calls, [name |-> scrapers[src], raised |-> ret.raised,
                                  failed |-> CallFailed])
        /\ IF src < Len(scrapers)
           THEN pc' = "scrape" /\ src' = src + 1 /\ spc' = "loop"
           ELSE pc' = "process"

\* the stages after scraping run one after the other on the records collected
StagesRun ==
    /\ pc = "process" =>
           /\ processed_jobs' = process_jobs(matcher, today, all_jobs).jobs
           /\ pc' = "merge"
    /\ pc = "merge" =>
           /\ final_jobs' = IF excel.exists /\ ~excel.corrupt
                            THEN _deduplicate(matcher, ReadRows(excel.rows) \o processed_jobs)
                            ELSE processed_jobs
           /\ pc' = "leads"
    /\ pc = "leads" => pc' = "excel"
    /\ pc = "excel" =>
           /\ excel' = excel \/ (final_jobs # <<>> /\ excel' = File(WriteRows(final_jobs)))
           /\ pc' = "csv"
    /\ pc = "csv" =>
           /\ csvfile' = csvfile
              \/ (final_jobs # <<>> /\ csvfile' = File(WriteRows(final_jobs)))
           /\ pc' = "done"

\* C5: when a scrape call fails (it raises, or every fetch of it exhausts its
\* retries), run_agent still calls scrape on every remaining source in the
\* fixed order, records 0 jobs for the failed source in the summary, runs
\* process_jobs, the merge and both exports on the records of the other
\* sources, and returns: no exception leaves it and it never stops before
\* its return.
C5_FailureIsolated ==
    /\ [](SourcesInOrder /\ SummaryOfCalls)
    /\ [](pc # "raised" /\ (pc = "done" \/ ENABLED Next))
    /\ [][AfterCall /\ StagesRun]_vars

\* C5 witness: run_agent returned after Naukri's scrape raised and Indeed
\* exhausted its retries; both are in the summary with 0 jobs, LinkedIn's
\* record went through the stages and is in both files
C5_Witness ==
    /\ pc = "done"
    /\ calls[1].raised /\ platform_stats[1] = <<"Naukri", 0>>
    /\ calls[2].failed /\ ~calls[2].raised /\ platform_stats[2] = <<"Indeed", 0>>
    /\ platform_stats[3] = <<"LinkedIn", 1>>
    /\ Len(all_jobs) = 1 /\ Len(processed_jobs) = 1
    /\ \E k \in 1..Len(final_jobs) : final_jobs[k].PlatformSource = "LinkedIn"
    /\ excel = File(WriteRows(final_jobs))
    /\ csvfile = File(WriteRows(final_jobs))


---------------------------------------------------------------------------
(* C11-C13: the Deduplicator, under SpecDedup.                             *)

\* the duplicate predicate of the specification, of a candidate c and an
\* accepted record s: similarities of the lowercased, trimmed values
Duplicates(c, s) ==
    LET Norm(x) == Strip(Lower(Str(x)))
        Sim(x, y) == Ratio(matcher, Norm(x), Norm(y))
    IN  /\ Sim(c.CompanyName, s.CompanyName) >= 80
        /\ Sim(c.JobTitle, s.JobTitle) >= 85
        /\ \/ Norm(c.Location) = <<>>
           \/ Norm(s.Location) = <<>>
           \/ Sim(c.Location, s.Location) >= 60

\* the source priority of a record: a smaller number is a higher priority
Prio(j) == platform_priority(j.PlatformSource)

\* the first call has returned
FirstCallDone == dcall = 1 /\ dpc = "done"

\* record r is in the list the call returned
Remains(r) == \E k \in 1..Len(dret) : dret[k] = r

\* C11: Deduplication is idempotent: the call on the list a first call
\* returned returns that list, the same records in the same order.
C11_Idempotent == (dcall = 2 /\ dpc = "done") => dret = d_first[2]

\* C11 witness: the first call took one of three records away, and the second
\* call returned the two that were left, in their order
C11_Witness ==
    /\ dcall = 2 /\ dpc = "done"
    /\ d_first[1] = <<DedupPool[1], DedupPool[6], DedupPool[7]>>
    /\ d_first[2] = <<DedupPool[1], DedupPool[7]>>
    /\ dret = <<DedupPool[1], DedupPool[7]>>

\* every record of the input has, in the output, a record it duplicates whose
\* priority is equal or higher (a kept record has itself)
DiscardedAreCovered ==
    \A i \in 1..Len(d_jobs) : \E k \in 1..Len(dret) :
        Duplicates(d_jobs[i], dret[k]) /\ Prio(dret[k]) <= Prio(d_jobs[i])

\* a and b have identical normalized company and title, and a is from the
\* source of higher priority
SameCompanyTitle(a, b) ==
    /\ Triple(a).comp = Triple(b).comp
    /\ Triple(a).title = Triple(b).title
    /\ Prio(a) < Prio(b)

\* the locations of candidate b and accepted a do not tell them apart
LocationsAgree(b, a) ==
    \/ Triple(b).loc = <<>>
    \/ Triple(a).loc = <<>>
    \/ Ratio(matcher, Triple(b).loc, Triple(a).loc) >= 60

\* C12 as claimed: every discarded record duplicates an output record of equal
\* or higher priority, and of two input records with identical normalized
\* company and title from sources of different priority only the
\* higher-priority one remains.
C12_Original ==
    FirstCallDone =>
        /\ DiscardedAreCovered
        /\ \A i, j \in 1..Len(d_jobs) :
               SameCompanyTitle(d_jobs[i], d_jobs[j])
                   => Remains(d_jobs[i]) /\ ~Remains(d_jobs[j])

\* C12 amended: every discarded record duplicates an output record of equal
\* or higher priority; of two input records with identical normalized company
\* and title from sources of different priority whose locations agree (one is
\* empty or their similarity is >= 60), the lower-priority one does not remain
\* beside the higher-priority one, and when the two are the whole input only
\* the higher-priority one remains, in either input order; when their
\* locations do not agree and the two are the whole input, both remain.
C12_HigherPriorityKept ==
    FirstCallDone =>
        /\ DiscardedAreCovered
        /\ \A i, j \in 1..Len(d_jobs) :
               (/\ SameCompanyTitle(d_jobs[i], d_jobs[j])
                /\ LocationsAgree(d_jobs[j], d_jobs[i])
                /\ Remains(d_jobs[i]))
                   => ~Remains(d_jobs[j])
        /\ \A i, j \in 1..Len(d_jobs) :
               (Len(d_jobs) = 2 /\ SameCompanyTitle(d_jobs[i], d_jobs[j]))
                   => dret = IF LocationsAgree(d_jobs[j], d_jobs[i])
                             THEN <<d_jobs[i]>>
                             ELSE <<d_jobs[i], d_jobs[j]>>

\* C12 witness: the Wellfound record came first in the input, the Naukri
\* record of the same company and title second, and only the Naukri record
\* was returned
C12_Witness ==
    /\ FirstCallDone
    /\ d_jobs = <<DedupPool[2], DedupPool[1]>>
    /\ dret = <<DedupPool[1]>>

\* C13: in the pass, a candidate is discarded iff some already-accepted record
\* has company similarity >= 80 and title similarity >= 85 with it and either
\* one of the two locations is empty or their location similarity is >= 60;
\* otherwise it is accepted (appended to the accepted records).
C13_Pass ==
    [][DedupStep =>
          LET c == d_sorted[didx]
              discard == \E k \in 1..Len(d_unique) : Duplicates(c, d_unique[k])
          IN  d_unique' = IF discard THEN d_unique ELSE Append(d_unique, c)]_vars

\* C13 witness: a candidate was discarded whose similarities with the accepted
\* record are exactly 80, 85 and 60
C13_Witness ==
    /\ dpc = "pass" /\ didx = 3
    /\ d_sorted = <<DedupPool[1], DedupPool[3]>>
    /\ d_unique = <<DedupPool[1]>>
    /\ Ratio(matcher, Triple(d_sorted[2]).comp, Triple(d_sorted[1]).comp) = 80
    /\ Ratio(matcher, Triple(d_sorted[2]).title, Triple(d_sorted[1]).title) = 85
    /\ Ratio(matcher, Triple(d_sorted[2]).loc, Triple(d_sorted[1]).loc) = 60

\* a candidate just below one threshold was accepted: title similarity 84
C13_AcceptedBelow ==
    /\ dpc = "pass" /\ didx = 3
    /\ d_sorted = <<DedupPool[8], DedupPool[9]>>
    /\ d_unique = d_sorted
    /\ Ratio(matcher, Triple(d_sorted[2]).title, Triple(d_sorted[1]).title) = 84

---------------------------------------------------------------------------
(* C14, C18: the merge and the collaborators of a run, under Spec.         *)

\* the previous dataset cannot be loaded: jobs_data.xlsx is missing, or
\* reading it raises
Unloadable(file) == ~file.exists \/ file.corrupt

\* C14: if the previous dataset cannot be loaded (file missing, unreadable or
\* corrupt), the merge gives exactly the new batch, the same records in the
\* same order, no exception reaches run_agent, and the run goes on to the
\* exports and returns.
C14_NoBaseline ==
    /\ [][(pc = "merge" /\ Unloadable(excel))
             => (final_jobs' = processed_jobs /\ pc' = "leads")]_vars
    /\ []((pc \in {"leads", "excel"} /\ Unloadable(excel)) => final_jobs = processed_jobs)
    /\ [](pc \in {"merge", "leads", "excel", "csv"} => ENABLED Next)

\* C14 witness: jobs_data.xlsx was there but unreadable, the merge gave the
\* new batch of at least one record, and the run has reached the Excel export
C14_Witness ==
    /\ pc = "excel"
    /\ excel = CorruptFile
    /\ Len(processed_jobs) >= 1
    /\ final_jobs = processed_jobs

\* the company names the lead-generation helper keeps of a list of records:
\* each name once, in order of first appearance, without the empty and the
\* "unknown" ones
LeadCompanies(jobs) ==
    SelectSeq(Unique([i \in 1..Len(jobs) |-> WriteCell(jobs[i].CompanyName)], 1, <<>>),
              LAMBDA c : c # <<>> /\ Lower(c) # Unknown)

\* C18: within one run the Excel exporter, the CSV exporter and the
\* lead-generation helper consume the merged set of that run: the files the
\* exporters write hold final_jobs, and the companies the helper writes are
\* those of final_jobs, not those of a set an earlier run persisted.
C18_SameRunSet ==
    /\ [][(pc = "excel" /\ excel' # excel) => excel' = File(WriteRows(final_jobs))]_vars
    /\ [][(pc = "csv" /\ csvfile' # csvfile) => csvfile' = File(WriteRows(final_jobs))]_vars
    /\ [](pc \in {"excel", "csv", "done"}
             => leads = IF final_jobs = <<>> THEN NoFile ELSE File(LeadCompanies(final_jobs)))

---------------------------------------------------------------------------
(* C15, C16: the Merger, under SpecMerge.                                  *)

\* merge_with_existing has returned after loading the previous set
MergedWithPrevious == mpc = "done" /\ existing_file.exists /\ ~existing_file.corrupt

C16_PreviousPreferred ==
    MergedWithPrevious =>
        \A i \in 1..Len(existing_records), j \in 1..Len(m_new) :
            Duplicates(m_new[j], existing_records[i])
                => /\ \E k \in 1..Len(merged) : merged[k] = existing_records[i]
                   /\ ~\E k \in 1..Len(merged) : merged[k] = m_new[j]

---------------------------------------------------------------------------
(* C17, C19: under SpecItem.                                               *)

\* a field of an item that is missing or empty
Missing(x) == ~Truthy(x)

\* the location of an item passes the India filter
IndiaLocation(l) ==
    LET loc == Lower(Strip(OrElse(l, <<>>)))
    IN  loc = <<>> \/ \E keyword \in india_keywords : Contains(loc, keyword)

\* the one item of the page is dropped for something other than its title
\* text: by the India filter, or as a payload node without a title key
DroppedAnyway ==
    /\ variant \in WellfoundVariants
    /\ \/ ~IndiaLocation(items[1].location)
       \/ variant = "WellfoundPayload" /\ items[1].title = Absent

C17_CompanyAbsentDropped ==
    /\ xpc = "done" /\ Len(items) = 1
    /\ items[1].company = Absent /\ items[1].title = <<"A", "n", "a", "l", "y", "s", "t">>
    /\ extracted # <<>> /\ canonical = <<>>

\* the indices of extracted whose record the India filter is to keep
KeptIndices ==
    {i \in 1..Len(extracted) :
        LET loc == Lower(extracted[i].Location)
        IN  loc = <<>> \/ \E keyword \in india_keywords : Contains(loc, keyword)}

\* C19: _filter_india keeps a record exactly when its lowercased location
\* contains an India keyword or is empty; the kept records are unchanged and
\* in their original order
C19_FilterIndia ==
    (variant \in WellfoundVariants /\ xpc \in {"process", "done"}) =>
        /\ Len(india_jobs) = Cardinality(KeptIndices)
        /\ \A k \in 1..Len(india_jobs) :
              india_jobs[k] = extracted[CHOOSE i \in KeptIndices :
                                            Cardinality({j \in KeptIndices : j < i}) = k - 1]

\* of two records the first was dropped for its location and the second,
\* whose location has the keyword in capitals, was kept as it was
C19_Witness ==
    /\ variant \in WellfoundVariants /\ xpc = "process"
    /\ Len(extracted) = 2 /\ extracted[1].Location = <<"P", "a", "r", "i", "s">>
    /\ extracted[2].Location = <<"R", "E", "M", "O", "T", "E", ",", " ", "I", "N", "D", "I", "A">>
    /\ india_jobs = <<extracted[2]>>

\* two records were kept, in their order, one of them without a location
C19_BothKept ==
    /\ variant \in WellfoundVariants /\ xpc = "process"
    /\ Len(extracted) = 2 /\ extracted[1].Location = <<>>
    /\ india_jobs = extracted

---------------------------------------------------------------------------
(* C20: under SpecWalk.                                                    *)

RECURSIVE DepthOf(_)
\* the depth of node n of the payload, the root at depth 0
DepthOf(n) == IF data[n].parent = 0 THEN 0 ELSE 1 + DepthOf(data[n].parent)

\* node n has been inspected by a call of the walk
Inspected(n) == \E k \in 1..Len(inspected) : inspected[k][1] = n

\* C20 as stated: the walk visits every dict node at depth <= 15, including
\* the descendants of job-shaped nodes, and never inspects a node at depth
\* > 15 (that it terminates is C20_Terminates)
C20_VisitsEveryDict ==
    /\ \A k \in 1..Len(inspected) : DepthOf(inspected[k][1]) <= DepthCap
    /\ wpc # "walk" =>
          \A n \in 1..Len(data) :
              (data[n].kind = "dict" /\ DepthOf(n) <= DepthCap) => Inspected(n)

\* the walk never inspects a node deeper than the cap, and the depth it
\* carries is the depth of the node
C20_NeverBeyondCap ==
    \A k \in 1..Len(inspected) :
        /\ DepthOf(inspected[k][1]) <= DepthCap
        /\ inspected[k][2] = DepthOf(inspected[k][1])

\* a walk in which no conversion raises visits every dict node within the cap
C20_VisitsUnlessRaised ==
    wpc = "done" =>
        \A n \in 1..Len(data) :
            (data[n].kind = "dict" /\ DepthOf(n) <= DepthCap) => Inspected(n)

\* every walk ends
C20_Terminates == <>(wpc # "walk")

\* a walk has ended on a payload deeper than the cap with the dict at depth 15
\* inspected
C20_CapReached ==
    /\ wpc = "done" /\ Len(data) = DepthCap + 3
    /\ \E k \in 1..Len(inspected) : inspected[k][2] = DepthCap
    /\ Len(inspected) = DepthCap + 1

\* a walk was abandoned with a dict within the cap never inspected
C20_Abandoned ==
    /\ wpc = "raised"
    /\ \E n \in 1..Len(data) :
          data[n].kind = "dict" /\ DepthOf(n) <= DepthCap /\ ~Inspected(n)

---------------------------------------------------------------------------
(* C21: under SpecNorm.                                                    *)

\* the raw date of the record normalised last, as _normalize_date reads it
RawDate == Lower(Strip(raw.DatePosted))

\* the raw date matches each of the six rules
DayRule == \E p \in 1..Len(RawDate) : DaysAgoAt(RawDate, p) # 0
TodayRule == \E kw \in TodayKeywords : Contains(RawDate, kw)
YesterdayRule == Contains(RawDate, Yesterday)
WeekRule == \E p \in 1..Len(RawDate) : NumberWordAt(RawDate, p, Week) # 0
MonthRule == \E p \in 1..Len(RawDate) : NumberWordAt(RawDate, p, Month) # 0
DateRule == _try_parse_date(RawDate) # 0

\* the record was given the date and the category of d days ago
DaysAgoIs(d) ==
    /\ job.DatePosted = Strftime(today - d)
    /\ job.PostingCategory = _categorize_days(d)

\* C21: _normalize_date takes the first rule that matches, in the order day,
\* today-keyword, yesterday, week, month, absolute date: n, 0, 1, 7n, 30n,
\* today minus the parsed date
C21_FirstRule ==
    (npc \in {"salary", "valid"} /\ RawDate # <<>>) =>
        /\ DayRule => DaysAgoIs(SearchDaysAgo(RawDate))
        /\ (~DayRule /\ TodayRule) => DaysAgoIs(0)
        /\ (~DayRule /\ ~TodayRule /\ YesterdayRule) => DaysAgoIs(1)
        /\ (~DayRule /\ ~TodayRule /\ ~YesterdayRule /\ WeekRule) =>
              DaysAgoIs(7 * SearchNumberWord(RawDate, Week))
        /\ (~DayRule /\ ~TodayRule /\ ~YesterdayRule /\ ~WeekRule /\ MonthRule) =>
              DaysAgoIs(30 * SearchNumberWord(RawDate, Month))
        /\ (~DayRule /\ ~TodayRule /\ ~YesterdayRule /\ ~WeekRule /\ ~MonthRule /\ DateRule) =>
              DaysAgoIs(today - _try_parse_date(RawDate))

\* a raw date with 2 weeks and 3 days ago in it was dated three days ago
C21_Witness ==
    /\ npc = "salary" /\ DayRule /\ WeekRule
    /\ SearchNumberWord(RawDate, Week) = 2 /\ SearchDaysAgo(RawDate) = 3
    /\ job.DatePosted = Strftime(today - 3)

\* raw dates matching two rules were dated by the earlier one: today before
\* week, yesterday before week, week before month
C21_TodayBeforeWeek ==
    npc = "salary" /\ ~DayRule /\ TodayRule /\ WeekRule /\ DaysAgoIs(0)

C21_YesterdayBeforeWeek ==
    npc = "salary" /\ ~TodayRule /\ YesterdayRule /\ WeekRule /\ DaysAgoIs(1)

C21_WeekBeforeMonth ==
    npc = "salary" /\ WeekRule /\ MonthRule /\ DaysAgoIs(14)

C21_AbsoluteDate ==
    npc = "salary" /\ ~MonthRule /\ DateRule /\ today - _try_parse_date(RawDate) = 1
    /\ DaysAgoIs(1)

---------------------------------------------------------------------------
(* C22: under SpecMerge, whose _deduplicate call is followed step by step. *)

\* how often record r occurs in seq
Occurs(seq, r) == Cardinality({i \in 1..Len(seq) : seq[i] = r})

RECURSIVE IsSubseq(_, _)
\* a is b with some of its elements left out
IsSubseq(a, b) ==
    IF a = <<>> THEN TRUE
    ELSE IF b = <<>> THEN FALSE
    ELSE IF Head(a) = Head(b) THEN IsSubseq(Tail(a), Tail(b))
    ELSE IsSubseq(a, Tail(b))

\* the records of seq with priority p, in their order
PriorityClass(seq, p) == SelectSeq(seq, LAMBDA j : Prio(j) = p)

\* out is a subsequence of the stable priority sort of in: its priorities
\* never decrease, and each of its priority classes is a subsequence of the
\* class of in
SubseqOfSorted(out, in) ==
    /\ \A i, k \in 1..Len(out) : i < k => Prio(out[i]) <= Prio(out[k])
    /\ \A p \in {Prio(in[i]) : i \in 1..Len(in)} \cup {Prio(out[k]) : k \in 1..Len(out)} :
          IsSubseq(PriorityClass(out, p), PriorityClass(in, p))

\* out holds records of in only, each as it is in in (a record is its eight
\* fields) and no more often than in in; out is a subsequence of in sorted by
\* priority, and is empty only if in is
ReadOnly(out, in) ==
    /\ \A k \in 1..Len(out) : \E i \in 1..Len(in) : out[k] = in[i]
    /\ \A k \in 1..Len(out) : Occurs(out, out[k]) <= Occurs(in, out[k])
    /\ SubseqOfSorted(out, in)
    /\ in # <<>> => out # <<>>

\* the records merge_with_existing works on: the loaded previous set and the
\* new batch, or the new batch alone when nothing was loaded
MergeInput ==
    IF Unloadable(existing_file) THEN m_new ELSE existing_records \o m_new

\* C22: the Deduplicator and the Merger are read-only on records: every record
\* of the output is an input record with its eight fields unchanged, none
\* occurs more often than in the input, the output is a subsequence of the
\* priority-sorted input, and a non-empty input gives a non-empty output
C22_ReadOnly ==
    /\ dpc = "done" => ReadOnly(dret, d_jobs)
    /\ mpc = "done" => ReadOnly(merged, MergeInput)

\* a merge with a loaded previous set has returned fewer records than it was
\* given, among them a record of each of the two inputs
C22_Witness ==
    /\ mpc = "done" /\ ~Unloadable(existing_file)
    /\ Len(merged) < Len(existing_records) + Len(m_new)
    /\ \E k \in 1..Len(merged) : \E i \in 1..Len(m_new) : merged[k] = m_new[i]
    /\ \E k \in 1..Len(merged) : \E i \in 1..Len(existing_records) :
          merged[k] = existing_records[i]

---------------------------------------------------------------------------
(* C23: under SpecDedup.                                                   *)

KnownSources == {"Naukri", "LinkedIn", "Indeed", "Wellfound"}

\* jobs_sorted has been computed by the call in progress
Sorted == dpc \in {"pass", "done"} /\ d_jobs # <<>>

\* jobs_sorted holds the records of jobs, those of unrecognized sources after
\* all those of known sources, and the records of each priority in the order
\* they have in jobs
StableSorted ==
    /\ Len(d_sorted) = Len(d_jobs)
    /\ \A i, k \in 1..Len(d_sorted) :
          (d_sorted[i].PlatformSource \notin KnownSources
              /\ d_sorted[k].PlatformSource \in KnownSources) => k < i
    /\ \A i, k \in 1..Len(d_sorted) : i < k => Prio(d_sorted[i]) <= Prio(d_sorted[k])
    /\ \A p \in {Prio(d_jobs[i]) : i \in 1..Len(d_jobs)} :
          PriorityClass(d_sorted, p) = PriorityClass(d_jobs, p)

\* jobs[i] and the later jobs[k] are different records of equal priority and
\* jobs[k] is a duplicate of jobs[i]
EqualPriorityDuplicates(i, k) ==
    /\ i < k /\ d_jobs[i] # d_jobs[k]
    /\ Prio(d_jobs[i]) = Prio(d_jobs[k])
    /\ Duplicates(d_jobs[k], d_jobs[i])

\* C23 as stated: the sort is stable with unrecognized sources last, so of
\* two equal-priority duplicates the one earlier in the input survives
C23_Original ==
    /\ Sorted => StableSorted
    /\ FirstCallDone =>
          \A i, k \in 1..Len(d_jobs) :
              EqualPriorityDuplicates(i, k) => Remains(d_jobs[i])

\* C23: the sort is stable: unrecognized sources come after all known ones and
\* records of equal priority, two different unrecognized sources included,
\* keep their order; so of two equal-priority duplicates the later one never
\* remains when the earlier one does, and when the two are the whole input
\* the earlier one alone remains
C23_StableSort ==
    /\ Sorted => StableSorted
    /\ FirstCallDone =>
          \A i, k \in 1..Len(d_jobs) :
              EqualPriorityDuplicates(i, k) =>
                  /\ Remains(d_jobs[i]) => ~Remains(d_jobs[k])
                  /\ Len(d_jobs) = 2 => dret = <<d_jobs[i]>>

\* of the duplicates from two unrecognized sources the earlier one was kept,
\* behind the records of the known sources
C23_Witness ==
    /\ FirstCallDone
    /\ d_jobs = <<MonsterDelhi, DedupPool[2], DedupPool[7], DedupPool[8]>>
    /\ d_sorted = <<DedupPool[8], DedupPool[2], MonsterDelhi, DedupPool[7]>>
    /\ Remains(MonsterDelhi) /\ ~Remains(DedupPool[7])

\* the earlier of two LinkedIn duplicates went as the duplicate of a Naukri
\* record, and the later one stayed
C23_EarlierDiscarded ==
    /\ FirstCallDone
    /\ d_jobs = <<DedupPool[6], LinkedInDelhi, DedupPool[1]>>
    /\ dret = <<DedupPool[1], LinkedInDelhi>>

---------------------------------------------------------------------------
(* C24: under SpecMerge.                                                   *)

\* the positions of the merged set that hold a record of the previous set
FromPrevious ==
    {k \in 1..Len(merged) : \E i \in 1..Len(existing_records) : merged[k] = existing_records[i]}

\* the number of new-batch records that entered the merged set, and of
\* previous-set records that the merge discarded
EnteredNew == Len(merged) - Cardinality(FromPrevious)
LostPrevious == Len(existing_records) - Cardinality(FromPrevious)

\* no two records of the loaded previous set are duplicates of each other
PreviousFree ==
    \A i, k \in 1..Len(existing_records) :
        i # k => ~Duplicates(existing_records[i], existing_records[k])

\* C24: the merge delta can under-report: when the deduplication of the union
\* discards records of the (duplicate-free) previous set, |mergedSet| is
\* smaller than |previous| + the new-batch records that entered, and new_count
\* = max(0, |mergedSet| - |previous|) is smaller than the number of new-batch
\* records that entered; it never exceeds that number
C24_UnderReports ==
    (MergedWithPrevious /\ PreviousFree) =>
        /\ LostPrevious >= 0 /\ EnteredNew >= 0
        /\ new_count = SetMax({0, EnteredNew - LostPrevious})
        /\ new_count <= EnteredNew
        /\ (LostPrevious > 0 /\ EnteredNew > 0) =>
              /\ Len(merged) < Len(existing_records) + EnteredNew
              /\ new_count < EnteredNew

\* one new record took the place of both records of a duplicate-free previous
\* set: one record entered and none is counted
C24_Witness ==
    /\ MergedWithPrevious /\ PreviousFree
    /\ Len(existing_records) = 2 /\ LostPrevious = 2 /\ EnteredNew = 1
    /\ Len(merged) < Len(existing_records) + EnteredNew
    /\ new_count = 0

\* two records entered and one is counted
C24_OneOfTwo ==
    /\ MergedWithPrevious /\ PreviousFree
    /\ LostPrevious = 1 /\ EnteredNew = 2 /\ new_count = 1

---------------------------------------------------------------------------
(* C25: under SpecRace.                                                    *)

\* what names a posting in the file
RowKey(row) == <<row.CompanyName, row.JobTitle, row.Location, row.PlatformSource>>

\* the rows of a file that can be read
RowsOf(file) == IF file.exists /\ ~file.corrupt THEN file.rows ELSE <<>>

\* both runs are through
BothDone == \A r \in Runs : rpc[r] = "done"

\* each run read the file before the other had written it
Interleaved == BothDone /\ race_log[1].op = "read" /\ race_log[2].op = "read"

\* one run read and wrote the file before the other read it
Serialized == BothDone /\ race_log[1].run = race_log[2].run

\* the run that wrote last, and the file when the runs started
LastWriter == race_log[4].run
StartStore == race_log[1].file

\* row is a posting of the set `jobs`, or a duplicate of one of its records
CoveredBy(jobs, row) ==
    \E k \in 1..Len(jobs) :
        \/ RowKey(MapCells(WriteCell, jobs[k])) = RowKey(row)
        \/ Duplicates(MapCells(ReadCell, row), jobs[k])

\* C25: when each of two runs reads the file before the other has written it,
\* the file left by the run that writes last holds only postings of the file
\* the runs started from and of the last writer's own batch, so what the other
\* run added is lost; when the runs are serialized, the second run's file
\* holds every posting the first run left, or a duplicate of it
C25_LostUpdate ==
    /\ (Interleaved /\ race_log[4].done) =>
          /\ store.rows = WriteRows(r_final[LastWriter])
          /\ \A i \in 1..Len(store.rows) :
                \/ \E k \in 1..Len(RowsOf(StartStore)) :
                      RowKey(store.rows[i]) = RowKey(StartStore.rows[k])
                \/ \E k \in 1..Len(r_batch[LastWriter]) :
                      RowKey(store.rows[i]) = RowKey(MapCells(WriteCell, r_batch[LastWriter][k]))
    /\ (Serialized /\ race_log[4].done) =>
          /\ store.rows = WriteRows(r_final[LastWriter])
          /\ \A i \in 1..Len(RowsOf(race_log[2].file)) :
                CoveredBy(r_final[LastWriter], race_log[2].file.rows[i])

\* both runs wrote, each having read the file before the other wrote, and a
\* posting the first writer had added is not in the file and has no duplicate
\* there
C25_Witness ==
    /\ Interleaved /\ race_log[3].done /\ race_log[4].done
    /\ \E i \in 1..Len(race_log[3].file.rows) :
          /\ \A k \in 1..Len(RowsOf(StartStore)) :
                RowKey(race_log[3].file.rows[i]) # RowKey(StartStore.rows[k])
          /\ ~CoveredBy(r_final[LastWriter], race_log[3].file.rows[i])
          /\ \A k \in 1..Len(store.rows) :
                RowKey(store.rows[k]) # RowKey(race_log[3].file.rows[i])

\* serialized runs have both written, and the file holds the postings both added
C25_SerializedKeeps ==
    /\ Serialized /\ race_log[2].done /\ race_log[4].done
    /\ r_batch[1] = <<BatchOfFive[4]>> /\ r_batch[2] = <<BatchOfFive[3]>>
    /\ \E i, k \in 1..Len(store.rows) :
          /\ RowKey(store.rows[i]) = RowKey(BatchOfFive[4])
          /\ RowKey(store.rows[k]) = RowKey(BatchOfFive[3])

---------------------------------------------------------------------------
(* C26: under FairSpec.                                                    *)

\* the most page fetches a scrape call of scraper s issues
FetchLimit(s) ==
    CASE s \in {1, 2} -> MAX_PAGES
      [] s = 4        -> 3
      [] OTHER        -> 0

\* the scrape call in progress has issued no more page fetches than its
\* limit, the last of them with no more than MAX_RETRIES attempts
FetchesBounded ==
    pc = "scrape" => (Len(pages) <= FetchLimit(src) /\ attempt <= MAX_RETRIES)

\* C26: every scrape call issues a bounded number of page fetches (at most
\* MAX_PAGES for Naukri and Indeed, at most 3 urls for Wellfound), each of at
\* most MAX_RETRIES attempts, and run_agent eventually reaches its summary
\* and returns, whatever the fetches give
C26_Terminates == [](FetchesBounded) /\ <>(pc = "done")

\* run_agent has returned after every fetch of Naukri, Indeed and Wellfound
\* had failed on all its attempts
C26_Witness ==
    /\ pc = "done"
    /\ calls[1].failed /\ calls[2].failed /\ calls[4].failed
    /\ ~calls[1].raised /\ ~calls[2].raised /\ ~calls[4].raised

\* the Wellfound call has fetched its three urls, the last with MAX_RETRIES
\* attempts
C26_AllUrls ==
    /\ pc = "scrape" /\ src = 4 /\ spc = "returned"
    /\ Len(pages) = 3 /\ attempt = MAX_RETRIES

\* the Naukri call has fetched MAX_PAGES pages
C26_AllPages ==
    /\ pc = "scrape" /\ src = 1 /\ spc = "returned" /\ Len(pages) = MAX_PAGES

---------------------------------------------------------------------------
(* C27: under SpecScrape.                                                  *)

\* pages i and j were fetched and no page between them was
ConsecutiveFetched(i, j) ==
    /\ i < j /\ pages[i].fetched /\ pages[j].fetched
    /\ \A k \in (i + 1)..(j - 1) : ~pages[k].fetched

RECURSIVE SleepsBetween(_, _)
\* the time.sleep calls from the return of the _fetch of iteration i to the
\* return of the _fetch of iteration j, in order
SleepsBetween(i, j) ==
    IF i = j THEN <<>>
    ELSE pages[i].delay \o pages[i + 1].backoff \o SleepsBetween(i + 1, j)

RECURSIVE BackoffsBetween(_, _)
\* the backoff waits among them
BackoffsBetween(i, j) ==
    IF i = j THEN <<>>
    ELSE pages[i + 1].backoff \o BackoffsBetween(i + 1, j)

\* C27: between two consecutive successful page fetches of one scrape call
\* there is exactly one _rate_limit() call, and the sleeps between them are
\* its one delay, of REQUEST_DELAY_MIN to REQUEST_DELAY_MAX seconds, and
\* after it the backoff waits of the retries, each in full
C27_OneDelay ==
    pc = "scrape" =>
        \A i, j \in 1..Len(pages) :
            ConsecutiveFetched(i, j) =>
                /\ Cardinality({k \in i..(j - 1) : pages[k].rate_limit}) = 1
                /\ j = LastFetched(pages) =>
                       /\ Len(pages[i].delay) = 1
                       /\ REQUEST_DELAY_MIN <= pages[i].delay[1]
                       /\ pages[i].delay[1] <= REQUEST_DELAY_MAX
                       /\ SleepsBetween(i, j) = pages[i].delay \o BackoffsBetween(i, j)

\* Wellfound fetched its first url, which had no job, failed to fetch the
\* second and fetched the third at its third attempt
C27_Witness ==
    /\ pc = "scrape" /\ src = 4 /\ Len(pages) = 3
    /\ pages[1].fetched /\ ~pages[2].fetched /\ pages[3].fetched
    /\ Len(pages[2].backoff) = MAX_RETRIES /\ Len(pages[3].backoff) = 2

\* Naukri fetched its second page at the third attempt, the longest delay
\* after the first page
C27_NaukriRetried ==
    /\ pc = "scrape" /\ src = 1 /\ Len(pages) = 2
    /\ pages[1].fetched /\ pages[1].delay = <<REQUEST_DELAY_MAX>>
    /\ pages[2].fetched /\ Len(pages[2].backoff) = 2

---------------------------------------------------------------------------
(* C28: under SpecFetch.                                                   *)

\* C28: a backoff wait is performed only before a next attempt: in a call
\* that has returned, every attempt that was followed by a wait was followed
\* by another attempt, so after the failure of attempt MAX_RETRIES _fetch
\* returns None without a wait
C28_NoWaitAfterLast ==
    spc = "returned" =>
        \A n \in 1..Len(fetchLog) : fetchLog[n].wait > 0 => n < Len(fetchLog)

\* _fetch has returned None after three failed attempts, the last a 429
C28_ThreeFailures ==
    /\ spc = "returned" /\ resp = NoResponse
    /\ Len(fetchLog) = MAX_RETRIES
    /\ fetchLog[MAX_RETRIES].status = 429
    /\ fetchLog[MAX_RETRIES].wait = RETRY_DELAY * MAX_RETRIES * 2

---------------------------------------------------------------------------
(* SpecSched: the process of scheduler.py.  processor is imported once,    *)
(* when the process starts (scheduler.py line 14 imports main, main.py     *)
(* line 13 imports processor), and every run of the process calls the same *)
(* process_jobs.                                                           *)

\* the days the scheduler is followed for after the day it started
MaxDays == 2

\* the date texts of the postings the runs scrape
SchedDates == {
    <<"T", "o", "d", "a", "y">>, <<"3", " ", "d", "a", "y", "s", " ", "a", "g", "o">>, <<"1", " ", "w", "e", "e", "k", " ", "a", "g", "o">>, <<"0", "4", " ", "N", "o", "v", " ", "2", "0", "2", "6">>, <<"2", "0", "2", "6", "-", "1", "1", "-", "0", "3">>, <<>>}

\* all_jobs of a run: one posting
SchedBatches ==
    {<<MakeRecord(Args(<<"A", "c", "m", "e">>, <<"A", "n", "a", "l", "y", "s", "t">>, d, Absent))>> : d \in SchedDates}

\* `python scheduler.py`, at the call of scheduled_job() in line 41
SchedInit ==
    /\ today \in TodayChoices /\ matcher = "difflib"
    /\ now = today /\ s_pending = TRUE /\ s_runs = <<>>
    /\ RunIdle /\ NormIdle
    /\ DedupIdle /\ MergeIdle /\ ItemIdle /\ WalkIdle
    /\ RaceIdle /\ site_pages = ResultPages

\* scheduler.py lines 20-27: scheduled_job, whose run_agent hands what the
\* scrapers returned to process_jobs (main.py line 81)
ScheduledJob ==
    /\ s_pending
    /\ \E batch \in SchedBatches : \E p \in {process_jobs(matcher, today, batch)} :
           s_runs' = Append(s_runs, [day |-> now, TODAY |-> today,
                                     raised |-> p.raised, jobs |-> p.jobs])
    /\ s_pending' = FALSE
    /\ UNCHANGED <<site_pages, today, matcher, now>>
    /\ UNCHANGED <<runVars, normVars, dedupVars, mergeVars, itemVars, walkVars, raceVars>>

\* scheduler.py lines 39, 45-47: the process was started before
\* SCHEDULE_TIME, and run_pending finds the job due on the same day
DueSameDay ==
    /\ ~s_pending /\ now = today /\ Len(s_runs) = 1
    /\ s_pending' = TRUE
    /\ UNCHANGED <<site_pages, today, matcher, now, s_runs>>
    /\ UNCHANGED <<runVars, normVars, dedupVars, mergeVars, itemVars, walkVars, raceVars>>

\* scheduler.py lines 39, 45-47: run_pending finds the job due at
\* SCHEDULE_TIME of the next day
DueNextDay ==
    /\ ~s_pending /\ now < today + MaxDays
    /\ now' = now + 1
    /\ s_pending' = TRUE
    /\ UNCHANGED <<site_pages, today, matcher, s_runs>>
    /\ UNCHANGED <<runVars, normVars, dedupVars, mergeVars, itemVars, walkVars, raceVars>>

SchedNext == ScheduledJob \/ DueSameDay \/ DueNextDay

SpecSched == SchedInit /\ [][SchedNext]_vars

---------------------------------------------------------------------------
(* C29: under SpecSched.                                                   *)

\* C29: in every run of the scheduler process, the second and later ones on
\* later days included, the reference date that _normalize_date uses is the
\* calendar date on which the run executes
C29_TodayIsRunDay ==
    \A i \in 1..Len(s_runs) : s_runs[i].TODAY = s_runs[i].day

\* every run made on the day the process started uses that day
C29_FirstDay ==
    \A i \in 1..Len(s_runs) :
        s_runs[i].day = today => s_runs[i].TODAY = s_runs[i].day

\* the run of the day after the start gave a posting marked <<"T", "o", "d", "a", "y">> the date
\* of the day before and the category "Posted Today"
C29_StaleToday ==
    /\ Len(s_runs) >= 2
    /\ s_runs[Len(s_runs)].day = today + 1
    /\ ~s_runs[Len(s_runs)].raised
    /\ Len(s_runs[Len(s_runs)].jobs) = 1
    /\ s_runs[Len(s_runs)].jobs[1].DatePosted = Strftime(today)
    /\ s_runs[Len(s_runs)].jobs[1].DatePosted # Strftime(now)
    /\ s_runs[Len(s_runs)].jobs[1].PostingCategory = "Posted Today"

---------------------------------------------------------------------------
(* C30: under SpecDedup (and, for the merged set, SpecMerge).              *)

\* the similarity scores of a and b do not depend on the order of the two
SymmetricScores(a, b) ==
    LET Norm(x) == Strip(Lower(Str(x)))
        Same(x, y) == Ratio(matcher, Norm(x), Norm(y)) = Ratio(matcher, Norm(y), Norm(x))
    IN  /\ Same(a.CompanyName, b.CompanyName)
        /\ Same(a.JobTitle, b.JobTitle)
        /\ Same(a.Location, b.Location)

\* no two records at different places of out are duplicates of each other,
\* where their scores are symmetric
DuplicateFree(out) ==
    \A k, l \in 1..Len(out) :
        (k # l /\ SymmetricScores(out[k], out[l])) => ~Duplicates(out[k], out[l])

\* C30: in the list _deduplicate returns, and so in the merged set of a merge
\* with a loaded baseline, no two distinct records satisfy the duplicate
\* predicate with each other, given that the similarity score is symmetric
C30_NoDuplicatesLeft ==
    /\ dpc = "done" => DuplicateFree(dret)
    /\ (mpc = "done" /\ ~Unloadable(existing_file)) => DuplicateFree(merged)

\* a call returned three records after discarding one of its four
C30_Witness ==
    /\ dpc = "done" /\ dcall = 1
    /\ Len(d_jobs) = 4 /\ Len(dret) = 3
    /\ \A k, l \in 1..3 : SymmetricScores(dret[k], dret[l])

\* whatever the scores, a returned record is no duplicate of one before it
C30_NotOfEarlier ==
    dpc = "done" =>
        \A k, l \in 1..Len(dret) : k < l => ~Duplicates(dret[l], dret[k])

\* without the proviso: no two returned records are duplicates in any order
C30_AnyOrder ==
    dpc = "done" =>
        \A k, l \in 1..Len(dret) : k # l => ~Duplicates(dret[k], dret[l])

\* a merge with a loaded baseline returned at least two records
C30_Merged ==
    /\ mpc = "done" /\ ~Unloadable(existing_file) /\ Len(merged) >= 2

\* the two NCR postings were both returned: the later one scores 53 against
\* the earlier one, which scores 67 against it
C30_AsymmetricPair ==
    /\ dpc = "done" /\ matcher = "difflib"
    /\ dret = <<NaukriGoa, NaukriAgra>>
    /\ ~Duplicates(dret[2], dret[1]) /\ Duplicates(dret[1], dret[2])
    /\ ~SymmetricScores(dret[1], dret[2])

=============================================================================
